---- MODULE Spec2Model ----
(***************************************************************************)
(* A model of the trust node of repeerv3 (trust-node/src): the network     *)
(* actor of node.rs with its query coordinator (fan-out / fan-in over the  *)
(* pending-request table), the score arithmetic of types.rs, the response  *)
(* merge of protocols.rs, the memoised local score engine of               *)
(* query_engine.rs and the durable store of storage.rs.                    *)
(*                                                                         *)
(* f64 values are modelled as exact rationals <<numerator, denominator>>   *)
(* in lowest terms with a positive denominator.  Time is an integer number *)
(* of days.                                                                *)
(***************************************************************************)
EXTENDS Integers, Sequences, FiniteSets, TLC

(***************************************************************************)
(* Bounds of the model.                                                    *)
(***************************************************************************)
\* the largest max_depth of a query
MaxDepth == 1
\* the number of single-use reply channels: one per command of the front-end
\* and one per query of a requesting peer
MaxChannels == 2
\* the last day of the clock
MaxTime == 1

(***************************************************************************)
(* Exact arithmetic standing in for f64.                                   *)
(***************************************************************************)
IAbs(x) == IF x < 0 THEN -x ELSE x

RECURSIVE Gcd(_, _)
Gcd(a, b) == IF b = 0 THEN a ELSE Gcd(b, a % b)

Rat(n, d) ==
    LET s == IF d < 0 THEN -1 ELSE 1
        g == Gcd(IAbs(n), IAbs(d))
    IN  <<(s * n) \div g, (s * d) \div g>>

R(n) == <<n, 1>>
RAdd(x, y) == Rat(x[1] * y[2] + y[1] * x[2], x[2] * y[2])
RSub(x, y) == Rat(x[1] * y[2] - y[1] * x[2], x[2] * y[2])
RMul(x, y) == Rat(x[1] * y[1], x[2] * y[2])
RDiv(x, y) == Rat(x[1] * y[2], x[2] * y[1])
RAbs(x) == <<IAbs(x[1]), x[2]>>
RLt(x, y) == x[1] * y[2] < y[1] * x[2]
RMax(x, y) == IF RLt(x, y) THEN y ELSE x
RIsZero(x) == x[1] = 0
RPos(x) == x[1] > 0
RNeg(x) == x[1] < 0

(***************************************************************************)
(* types.rs: TrustScore and its fusion arithmetic.                         *)
(***************************************************************************)
TrustScore(roi, vol, n) ==
    [expected_pv_roi |-> roi, total_volume |-> vol, data_points |-> n]

DefaultScore == TrustScore(R(1), R(0), 0)

\* a merge that does not count the data points
merge_with_NoPoints(self, other, other_weight) ==
    TrustScore(R(1), RAdd(self.total_volume,
                          RMul(other.total_volume, RAbs(other_weight))), 0)
merge_with(self, other, other_weight) ==
    LET self_adjusted_volume == self.total_volume
        other_adjusted_volume == RMul(other.total_volume, RAbs(other_weight))
        total_weight == RAdd(self_adjusted_volume, other_adjusted_volume)
        other_roi == IF RNeg(other_weight)
                     THEN RSub(R(2), other.expected_pv_roi)
                     ELSE other.expected_pv_roi
        weighted_roi ==
            IF RPos(total_weight)
            THEN RDiv(RAdd(RMul(self.expected_pv_roi, self_adjusted_volume),
                           RMul(other_roi, other_adjusted_volume)),
                      total_weight)
            ELSE R(1)
    IN  IF RIsZero(self_adjusted_volume) /\ RIsZero(other_adjusted_volume)
        THEN DefaultScore
        ELSE TrustScore(weighted_roi, total_weight,
                        self.data_points + other.data_points)

RECURSIVE MergeRest(_, _, _)
MergeRest(result, scores, i) ==
    IF i > Len(scores) THEN result
    ELSE MergeRest(merge_with(result, scores[i][1], scores[i][2]), scores, i + 1)

MergeFirst(score, first_weight) ==
    IF first_weight # R(1)
    THEN TrustScore(IF RNeg(first_weight)
                    THEN RSub(R(2), score.expected_pv_roi)
                    ELSE score.expected_pv_roi,
                    RMul(score.total_volume, RAbs(first_weight)),
                    score.data_points)
    ELSE score

\* scores: a sequence of <<TrustScore, weight>> pairs
merge_multiple(scores) ==
    IF Len(scores) = 0 THEN DefaultScore
    ELSE MergeRest(MergeFirst(scores[1][1], scores[1][2]), scores, 2)

(***************************************************************************)
(* The values the model draws its inputs from.                             *)
(***************************************************************************)
None == "None"

\* Option<T> of a query field: the empty sequence, or the value alone
NoValue == <<>>
Some(v) == <<v>>

AgentA == <<"x", "a">>
AgentB == <<"x", "b">>
Agents == {AgentA, AgentB}
\* a fixed enumeration of the agent keys (HashMap iteration order is
\* arbitrary in the source; the model emits scores in this order)
AgentOrder == <<AgentA, AgentB>>

\* transport peer identifiers
PeerIds == {"B", "C"}

\* peer handles of the registry: multi-component addresses ending in a peer
\* identifier (two of them name the same peer), and a bare peer identifier
HandleB1 == "/ip4/10.0.0.1/tcp/9000/p2p/B"
HandleB2 == "/ip4/10.0.0.2/tcp/9000/p2p/B"
HandleC == "/ip4/10.0.0.3/tcp/9000/p2p/C"
HandleBareB == "B"
HandleBareC == "C"
Handles == {HandleB1, HandleB2, HandleC, HandleBareB, HandleBareC}

\* peer.peer_id.parse::<Multiaddr>() followed by addr.iter().last() being
\* Protocol::P2p(hash) and PeerId::from_multihash(hash): the embedded peer
\* identifier, or None when the handle is not such an address
MultiaddrPeerId(handle) ==
    CASE handle = HandleB1 -> "B"
      [] handle = HandleB2 -> "B"
      [] handle = HandleC -> "C"
      [] OTHER -> None

\* PeerId::to_string()
PeerIdToString(peer_id) == peer_id

(***************************************************************************)
(* Sequence helpers.                                                       *)
(***************************************************************************)
RECURSIVE InsertDesc(_, _)
\* insert the pair x = <<key, row>> into the sequence s of such pairs, which
\* is sorted by descending key, after the pairs with an equal key
InsertDesc(s, x) ==
    IF Len(s) = 0 THEN <<x>>
    ELSE IF Head(s)[1] >= x[1]
         THEN <<Head(s)>> \o InsertDesc(Tail(s), x)
         ELSE <<x>> \o s

RECURSIVE SortDesc(_)
\* ORDER BY key DESC over a sequence of <<key, row>> pairs; rows with equal
\* keys keep their table order
SortDesc(s) ==
    IF Len(s) = 0 THEN <<>>
    ELSE InsertDesc(SortDesc(SubSeq(s, 1, Len(s) - 1)), s[Len(s)])

Rows(pairs) == [i \in 1..Len(pairs) |-> pairs[i][2]]

(***************************************************************************)
(* storage.rs: the durable store.  Each table is the sequence of its rows  *)
(* in insertion order.                                                     *)
(***************************************************************************)
Experience(id, agent, roi, vol, ts) ==
    [id |-> id, agent |-> agent, pv_roi |-> roi, invested_volume |-> vol,
     timestamp |-> ts]

\* SELECT ... WHERE agent_id = ?1 ORDER BY timestamp DESC
get_experiences(table, agent) ==
    LET rows == SelectSeq(table, LAMBDA e : e.agent = agent)
    IN  Rows(SortDesc([i \in 1..Len(rows) |-> <<rows[i].timestamp, rows[i]>>]))

CachedTrustScore(agent, score, from_peer, cached_at) ==
    [agent |-> agent, score |-> score, from_peer |-> from_peer,
     cached_at |-> cached_at]

\* a plain INSERT, which keeps the earlier row of the pair
cache_trust_score_Insert(table, cached) == Append(table, cached)
\* INSERT OR REPLACE on the primary key (agent, from_peer)
cache_trust_score(table, cached) ==
    Append(SelectSeq(table, LAMBDA c : ~(c.agent = cached.agent
                                         /\ c.from_peer = cached.from_peer)),
           cached)

\* SELECT ... WHERE agent_id = ?1 ORDER BY cached_at DESC
get_cached_scores(table, agent) ==
    LET rows == SelectSeq(table, LAMBDA c : c.agent = agent)
    IN  Rows(SortDesc([i \in 1..Len(rows) |-> <<rows[i].cached_at, rows[i]>>]))

(***************************************************************************)
(* types.rs: TrustExperience::aged_volume.                                 *)
(***************************************************************************)
aged_volume(exp, point_in_time, forget_rate) ==
    RMul(exp.invested_volume,
         RMax(RSub(R(1), RMul(RAbs(Rat(point_in_time - exp.timestamp, 365)),
                              forget_rate)),
              R(0)))

(***************************************************************************)
(* query_engine.rs: the local score engine and its memo.                   *)
(***************************************************************************)
CacheTtlSeconds == 300
SecondsPerDay == 86400

\* format!("{:.3}", forget_rate): the rate rounded to three decimals
FormatRate(forget_rate) ==
    (2 * 1000 * forget_rate[1] + forget_rate[2]) \div (2 * forget_rate[2])

get_cache_key(agent, point_in_time, forget_rate) ==
    <<agent, point_in_time, FormatRate(forget_rate)>>

is_cache_valid(entry, now_) ==
    (now_ - entry.calculated_at) * SecondsPerDay < CacheTtlSeconds

\* one turn of the loop: an experience counts if its aged volume is positive
AddWeighted(sums, pv_roi, av) ==
    IF RPos(av)
    THEN <<RAdd(sums[1], RMul(pv_roi, av)), RAdd(sums[2], av)>>
    ELSE sums

RECURSIVE WeightedSums(_, _, _, _, _)
\* the loop of calculate_weighted_average over <<weighted_sum, total_weight>>
WeightedSums(exps, i, point_in_time, forget_rate, sums) ==
    IF i > Len(exps) THEN sums
    ELSE WeightedSums(exps, i + 1, point_in_time, forget_rate,
            AddWeighted(sums, exps[i].pv_roi,
                        aged_volume(exps[i], point_in_time, forget_rate)))

\* weighted_sum / total_weight, or the neutral (1.0, 0.0)
AverageOfSums(sums) ==
    IF RPos(sums[2]) THEN <<RDiv(sums[1], sums[2]), sums[2]>>
    ELSE <<R(1), R(0)>>

calculate_weighted_average(exps, point_in_time, forget_rate) ==
    AverageOfSums(WeightedSums(exps, 1, point_in_time, forget_rate, <<R(0), R(0)>>))

CacheEntry(score, calculated_at, point_in_time, forget_rate) ==
    [score |-> score, calculated_at |-> calculated_at,
     point_in_time |-> point_in_time, forget_rate |-> forget_rate]

CachePut(memo, key, entry) ==
    [k \in DOMAIN memo \cup {key} |-> IF k = key THEN entry ELSE memo[k]]

\* calculate_trust_score: the result and the memo after the call;
\* storage_ok tells whether storage.get_experiences succeeds when called
\* the score of the experiences read from the store
ScoreOfExperiences(exps, avg) ==
    IF Len(exps) = 0 THEN DefaultScore
    ELSE TrustScore(avg[1], avg[2], Len(exps))

\* the miss branch of calculate_trust_score: compute, memoize, return
ComputeAndMemoize(memo, cache_key, score, point_in_time, forget_rate, now_) ==
    [ok |-> TRUE, score |-> score,
     memo |-> CachePut(memo, cache_key,
                       CacheEntry(score, now_, point_in_time, forget_rate))]

LookupOrCompute(memo, cache_key, exps, point_in_time, forget_rate, now_, storage_ok) ==
    IF cache_key \in DOMAIN memo /\ is_cache_valid(memo[cache_key], now_)
    THEN [ok |-> TRUE, score |-> memo[cache_key].score, memo |-> memo]
    ELSE IF ~storage_ok
    THEN [ok |-> FALSE, score |-> DefaultScore, memo |-> memo]
    ELSE ComputeAndMemoize(memo, cache_key,
            ScoreOfExperiences(exps,
                calculate_weighted_average(exps, point_in_time, forget_rate)),
            point_in_time, forget_rate, now_)

calculate_trust_score(memo, table, agent, point_in_time, forget_rate, now_, storage_ok) ==
    LookupOrCompute(memo, get_cache_key(agent, point_in_time, forget_rate),
                    get_experiences(table, agent),
                    point_in_time, forget_rate, now_, storage_ok)

(***************************************************************************)
(* types.rs / protocols.rs: queries and responses on the wire.             *)
(***************************************************************************)
TrustQuery(agents, max_depth, point_in_time, forget_rate) ==
    [agents |-> agents, max_depth |-> max_depth,
     point_in_time |-> point_in_time, forget_rate |-> forget_rate]

AgentScore(agent, score) == [agent |-> agent, score |-> score]

TrustResponse(scores, timestamp) == [scores |-> scores, timestamp |-> timestamp]

Peer(peer_id, quality) == [peer_id |-> peer_id, recommender_quality |-> quality]

\* a contribution table: a function from the agent keys that have an entry
\* to the sequence of their <<source, score, weight>> contributions
EmptyTable == [a \in {} |-> <<>>]

\* all_scores.entry(key).or_default().push(contribution)
Push(table, key, contribution) ==
    [k \in DOMAIN table \cup {key} |->
        IF k = key
        THEN (IF key \in DOMAIN table THEN table[key] ELSE <<>>) \o <<contribution>>
        ELSE table[k]]

\* scores.into_iter().map(|(_, score, quality)| (score, quality)).collect()
combine_scores_sync(scores) ==
    merge_multiple([i \in 1..Len(scores) |-> <<scores[i][2], scores[i][3]>>])

\* the final_scores of a contribution table: one AgentScore per key
FinalScores(table) ==
    LET keys == SelectSeq(AgentOrder, LAMBDA a : a \in DOMAIN table)
    IN  [i \in 1..Len(keys) |-> AgentScore(keys[i], combine_scores_sync(table[keys[i]]))]

RECURSIVE GroupScores_HalfWeight(_, _, _)
\* a grouping that gives every response score the weight 0.5
GroupScores_HalfWeight(responses, i, merged_scores) ==
    IF i > Len(responses) THEN merged_scores
    ELSE LET RECURSIVE Inner(_, _)
             Inner(j, acc) ==
                 IF j > Len(responses[i].response.scores) THEN acc
                 ELSE Inner(j + 1,
                            Push(acc, responses[i].response.scores[j].agent,
                                 <<"peer", responses[i].response.scores[j].score,
                                   Rat(1, 2)>>))
         IN  GroupScores_HalfWeight(responses, i + 1, Inner(1, merged_scores))
RECURSIVE GroupScores(_, _, _)
\* the two loops of merge_responses that group every score by agent key
GroupScores(responses, i, merged_scores) ==
    IF i > Len(responses) THEN merged_scores
    ELSE LET RECURSIVE Inner(_, _)
             Inner(j, acc) ==
                 IF j > Len(responses[i].response.scores) THEN acc
                 ELSE Inner(j + 1,
                            Push(acc, responses[i].response.scores[j].agent,
                                 <<"peer", responses[i].response.scores[j].score, R(1)>>))
         IN  GroupScores(responses, i + 1, Inner(1, merged_scores))

\* protocols.rs merge_responses: every response score enters with weight 1.0
merge_responses(responses, now_) ==
    TrustResponse(FinalScores(GroupScores(responses, 1, EmptyTable)), now_)

(***************************************************************************)
(* node.rs: the state of the network actor and of its surroundings.        *)
(***************************************************************************)
VARIABLES
    now,              \* Utc::now(), in days
    experiences,      \* store: the experiences table
    storedPeers,      \* store: the peers table, handle -> Peer
    cachedScores,     \* store: the cached_scores table
    cache,            \* QueryEngine::cache, the memo of local scores
    peers,            \* TrustNode::peers, the in-memory registry, handle -> Peer
    connected,        \* the peers the swarm is connected to
    pending_requests, \* TrustNode::pending_requests, request id -> record
    pendingRecs,      \* the PendingRequest records the table points to
    subQueries,       \* the sub-queries sent, each with its parent query and
                      \* its outcome so far: "sent", "response" or "failure"
    call,             \* the last call made on a component by itself (the
                      \* fusion, the score engine, import and export): its
                      \* inputs and its result; NoCall while the actor runs
    queryLog,         \* per channel: the command or query it belongs to and
                      \* what process_trust_query computed for it
    nextRequestId,    \* the swarm's next OutboundRequestId
    command_rx,       \* the command channel, front-end -> actor
    issued,           \* number of commands the front-end has sent
    oneshot,          \* the single-use reply channel of every command / query
    inboundCount,     \* number of inbound peer queries received
    responseChannel,  \* the protocol ResponseChannel of every inbound query,
                      \* idle for the channels of commands
    pc                \* where the actor is: "loop", "await_rx" or "terminated"

vars == <<now, experiences, storedPeers, cachedScores, cache, peers, connected,
          pending_requests, pendingRecs, subQueries, queryLog, nextRequestId,
          command_rx, issued, oneshot, inboundCount, responseChannel, pc, call>>

NoCall == [op |-> "none"]

CommandChannelCapacity == 100

\* every command and every inbound query has its own channel, numbered in
\* the order of their creation
QueryIds == 1..MaxChannels

\* the states of a single-use channel: not yet created, sender alive, sender
\* dropped unused, receiver gone before the send, value sent
Idle == [state |-> "idle", value |-> None]
Closed == [state |-> "closed", value |-> None]
Open == [state |-> "open", value |-> None]
Dropped == [state |-> "dropped", value |-> None]
Sent(value) == [state |-> "sent", value |-> value]

\* let _ = channel.send(value): the value is delivered unless the receiver
\* is gone, and then it is discarded
SendReply(channels, q, value) ==
    [channels EXCEPT ![q] = IF @.state = "closed" THEN @ ELSE Sent(value)]

OkResult(response) == [ok |-> TRUE, response |-> response]
ErrResult(error) == [ok |-> FALSE, error |-> error]

\* the entry of queryLog: kind is "none" (channel not created), "QueryTrust",
\* "AddExperience" or "peer" (an inbound query); handled tells whether the
\* actor has taken it up, storage_error whether the store failed on it,
\* all_scores is the table of Phase 1 and candidates the registry handles
\* with a connected transport peer at that moment
NoLog == [kind |-> "none", query |-> <<>>, handled |-> FALSE,
          storage_error |-> FALSE, all_scores |-> <<>>, candidates |-> <<>>]
LogEntry(kind, query, handled, storage_error, all_scores, candidates) ==
    [kind |-> kind, query |-> query, handled |-> handled,
     storage_error |-> storage_error, all_scores |-> all_scores,
     candidates |-> candidates]

\* the sub-queries that are neither answered nor failed
Outstanding == {req \in subQueries : req.status = "sent"}

PendingRequest(responses, waiting_for, response_channel, local_scores) ==
    [responses |-> responses, waiting_for |-> waiting_for,
     response_channel |-> response_channel, local_scores |-> local_scores]

\* the order in which the model walks self.peers.values()
HandleOrder == <<HandleB1, HandleB2, HandleC, HandleBareB, HandleBareC>>

(***************************************************************************)
(* node.rs process_trust_query, Phase 1: the local and cached contributions *)
(***************************************************************************)
\* if personal_score.total_volume > 0.0 { ... push(("self", score, 1.0)) }
PushPersonal(table, agent, personal_score) ==
    IF RPos(personal_score.total_volume)
    THEN Push(table, agent, <<"self", personal_score, R(1)>>)
    ELSE table

RECURSIVE PersonalScores(_, _, _, _, _, _, _, _, _)
RECURSIVE PersonalScoresAfter(_, _, _, _, _, _, _, _, _)
\* the "Get personal scores" loop; the `?` leaves it at the first error
PersonalScores(agents, i, memo, table, exps, point_in_time, forget_rate, now_, storage_ok) ==
    IF i > Len(agents) THEN [ok |-> TRUE, memo |-> memo, table |-> table]
    ELSE PersonalScoresAfter(agents, i,
            calculate_trust_score(memo, exps, agents[i], point_in_time,
                                  forget_rate, now_, storage_ok),
            table, exps, point_in_time, forget_rate, now_, storage_ok)

\* the rest of the loop once calculate_trust_score has returned r
PersonalScoresAfter(agents, i, r, table, exps, point_in_time, forget_rate, now_, storage_ok) ==
    IF ~r.ok THEN [ok |-> FALSE, memo |-> r.memo, table |-> table]
    ELSE PersonalScores(agents, i + 1, r.memo,
                        PushPersonal(table, agents[i], r.score),
                        exps, point_in_time, forget_rate, now_, storage_ok)

\* 1.0 / (1.0 + age_seconds / 86400.0)
AgeFactor(cached_at, now_) == RDiv(R(1), RAdd(R(1), R(now_ - cached_at)))

RECURSIVE CachedRows_AnyPeer(_, _, _, _, _, _)
\* a loop that takes every cached row, of a registered peer or not
CachedRows_AnyPeer(rows, j, agent, table, registry, now_) ==
    IF j > Len(rows) THEN table
    ELSE CachedRows_AnyPeer(rows, j + 1, agent,
            Push(table, agent,
                 <<rows[j].from_peer, rows[j].score,
                   AgeFactor(rows[j].cached_at, now_)>>),
            registry, now_)
RECURSIVE CachedRows(_, _, _, _, _, _)
\* the loop over the cached rows of one agent
CachedRows(rows, j, agent, table, registry, now_) ==
    IF j > Len(rows) THEN table
    ELSE CachedRows(rows, j + 1, agent,
            IF \E h \in DOMAIN registry : registry[h].peer_id = rows[j].from_peer
            THEN LET h == CHOOSE h \in DOMAIN registry :
                              registry[h].peer_id = rows[j].from_peer
                 IN  Push(table, agent,
                          <<rows[j].from_peer, rows[j].score,
                            RMul(registry[h].recommender_quality,
                                 AgeFactor(rows[j].cached_at, now_))>>)
            ELSE table,
            registry, now_)

RECURSIVE CachedContributions(_, _, _, _, _, _, _)
\* the "cached scores from peers" loop; a failing get_cached_scores is skipped
CachedContributions(agents, i, table, cached_table, registry, now_, cached_ok) ==
    IF i > Len(agents) THEN table
    ELSE CachedContributions(agents, i + 1,
            IF cached_ok
            THEN CachedRows(get_cached_scores(cached_table, agents[i]), 1,
                            agents[i], table, registry, now_)
            ELSE table,
            cached_table, registry, now_, cached_ok)

(***************************************************************************)
(* node.rs process_trust_query, Phase 2: the fan-out.                      *)
(***************************************************************************)
\* the registry handles a sub-query is sent for
FanOutHandles(registry, conn) ==
    SelectSeq(HandleOrder, LAMBDA h :
        /\ h \in DOMAIN registry
        /\ MultiaddrPeerId(registry[h].peer_id) # None
        /\ MultiaddrPeerId(registry[h].peer_id) \in conn)

\* a fan-out that does not look at the depth of the query
FanOutTargets_AnyDepth(query, registry, conn) == FanOutHandles(registry, conn)
\* if query.max_depth > 0 { for peer in self.peers.values() { ... } }
FanOutTargets(query, registry, conn) ==
    IF query.max_depth > 0 THEN FanOutHandles(registry, conn) ELSE <<>>

\* max_depth.saturating_sub(1) on a u8
SaturatingSub1(d) == IF d = 0 THEN 0 ELSE d - 1

\* a sub-query that passes the depth on as it is
SubQuery_SameDepth(query, point_in_time, forget_rate) ==
    TrustQuery(query.agents, query.max_depth, Some(point_in_time),
               Some(forget_rate))
SubQuery(query, point_in_time, forget_rate) ==
    TrustQuery(query.agents, SaturatingSub1(query.max_depth),
               Some(point_in_time), Some(forget_rate))

\* the outbound requests of the fan-out, one per target handle
Requests(query, point_in_time, forget_rate, targets) ==
    [i \in 1..Len(targets) |->
        [id |-> nextRequestId + i - 1,
         peer |-> MultiaddrPeerId(peers[targets[i]].peer_id),
         query |-> SubQuery(query, point_in_time, forget_rate)]]

\* waiting_for.insert(peer_id) for every request sent
WaitingFor(requests) == {requests[i].peer : i \in 1..Len(requests)}

\* Phase 3: store the pending record, or reply at once
SuspendOrReply(memo, all_scores, targets, requests) ==
    IF WaitingFor(requests) # {}
    THEN [kind |-> "pending", memo |-> memo, all_scores |-> all_scores,
          targets |-> targets, requests |-> requests,
          waiting_for |-> WaitingFor(requests), response |-> None]
    ELSE [kind |-> "reply", memo |-> memo, all_scores |-> all_scores,
          targets |-> targets, requests |-> requests, waiting_for |-> {},
          response |-> TrustResponse(FinalScores(all_scores), now)]

\* Phase 2: the fan-out
FanOut(query, point_in_time, forget_rate, memo, all_scores, targets) ==
    SuspendOrReply(memo, all_scores, targets,
                   Requests(query, point_in_time, forget_rate, targets))

\* what follows the personal loop: its error, or the cached loop and Phase 2
AfterPersonal(query, point_in_time, forget_rate, personal, cached_ok) ==
    IF ~personal.ok
    THEN [kind |-> "error", memo |-> personal.memo, all_scores |-> EmptyTable,
          targets |-> <<>>, requests |-> <<>>, waiting_for |-> {},
          response |-> None]
    ELSE FanOut(query, point_in_time, forget_rate, personal.memo,
                CachedContributions(query.agents, 1, personal.table,
                                    cachedScores, peers, now, cached_ok),
                FanOutTargets(query, peers, connected))

\* Phase 1 with point_in_time and forget_rate resolved
ProcessAt(query, point_in_time, forget_rate, storage_ok, cached_ok) ==
    AfterPersonal(query, point_in_time, forget_rate,
                  PersonalScores(query.agents, 1, cache, EmptyTable, experiences,
                                 point_in_time, forget_rate, now, storage_ok),
                  cached_ok)

\* process_trust_query as a whole: what the call decides and produces.
\* kind = "error": the `?` returned the storage error;
\* kind = "pending": a pending record was stored, no reply was sent;
\* kind = "reply": the reply was sent at once.
process_trust_query(query, storage_ok, cached_ok) ==
    ProcessAt(query,
              IF query.point_in_time = NoValue THEN now
              ELSE query.point_in_time[1],
              IF query.forget_rate = NoValue THEN R(0)
              ELSE query.forget_rate[1],
              storage_ok, cached_ok)

(***************************************************************************)
(* The inputs of the commands and events.                                  *)
(***************************************************************************)
AgentLists == {<<AgentA>>}

\* the queries of the front-end (api.rs query_trust_batch passes them on)
CommandQueries ==
    {TrustQuery(ags, d, NoValue, NoValue) : ags \in AgentLists, d \in 0..MaxDepth}

\* the queries of requesting peers: point_in_time and forget_rate are pinned
InboundQueries ==
    {TrustQuery(ags, d, Some(0), Some(R(0))) : ags \in AgentLists, d \in 0..MaxDepth}

ExperienceA1 == Experience("e1", AgentA, Rat(6, 5), R(1000), 0)
ExperienceA2 == Experience("e2", AgentA, Rat(4, 5), R(500), 0)

\* the scores a peer may answer with
ScoreS3 == TrustScore(Rat(6, 5), R(1000), 3)
ScoreS4 == TrustScore(Rat(3, 5), R(1000), 3)
ScoreOther == TrustScore(Rat(4, 5), R(200), 1)
PeerScoreLists ==
    {<<>>,
     <<AgentScore(AgentA, ScoreS3)>>,
     <<AgentScore(AgentA, ScoreS4)>>}

QualityB1 == Rat(-1, 2)
QualityB2 == R(1)
QualityC == R(1)
QualityBareB == Rat(1, 2)
QualityBareC == R(0)
PeerTable(handles) ==
    [h \in handles |->
        Peer(h, CASE h = HandleB1 -> QualityB1
                  [] h = HandleB2 -> QualityB2
                  [] h = HandleC -> QualityC
                  [] h = HandleBareC -> QualityBareC
                  [] OTHER -> QualityBareB)]
\* the contents of the durable store when the node starts
StartStores ==
    {[experiences |-> <<>>, peers |-> PeerTable({HandleB1}), cached |-> <<>>],
     [experiences |-> <<>>, peers |-> PeerTable({HandleB1, HandleC}),
      cached |-> <<>>],
     [experiences |-> <<ExperienceA1>>, peers |-> PeerTable({HandleB1, HandleC}),
      cached |-> <<>>],
     [experiences |-> <<>>, peers |-> PeerTable({HandleB1, HandleB2}),
      cached |-> <<>>],
     [experiences |-> <<>>, peers |-> PeerTable({HandleB1, HandleBareB}),
      cached |-> <<CachedTrustScore(AgentA, ScoreOther, "B", 0)>>],
     [experiences |-> <<>>, peers |-> PeerTable({HandleC, HandleBareC}),
      cached |-> <<CachedTrustScore(AgentA, ScoreOther, "C", 0)>>]}

(***************************************************************************)
(* node.rs TrustNode::new: the state after construction.                   *)
(***************************************************************************)
\* the node after TrustNode::new on the store st
NodeInit(st) ==
    /\ now = 0
    /\ experiences = st.experiences
    /\ storedPeers = st.peers
    /\ cachedScores = st.cached
    /\ cache = [k \in {} |-> None]
    /\ peers = storedPeers
    /\ connected = {}
    /\ pending_requests = [id \in {} |-> 0]
    /\ pendingRecs = [q \in {} |-> None]
    /\ subQueries = {}
    /\ queryLog = [q \in QueryIds |-> NoLog]
    /\ nextRequestId = 1
    /\ command_rx = <<>>
    /\ issued = 0
    /\ oneshot = [q \in QueryIds |-> Idle]
    /\ inboundCount = 0
    /\ responseChannel = [q \in QueryIds |-> Idle]
    /\ pc = "loop"

Init ==
    /\ \E st \in StartStores : NodeInit(st)
    /\ call = NoCall

(***************************************************************************)
(* The effects shared by the handlers.                                     *)
(***************************************************************************)
\* run() returns the error: the actor and everything it owns is dropped
DropSenders(channels) ==
    [q \in DOMAIN channels |->
        IF channels[q].state = "open" THEN Dropped ELSE channels[q]]

Terminated ==
    /\ pc' = "terminated"
    /\ pending_requests' = [id \in {} |-> 0]
    /\ pendingRecs' = [q \in {} |-> None]
    /\ command_rx' = <<>>
    /\ UNCHANGED subQueries

\* Phase 3 of process_trust_query: the pending record, indexed under every
\* request id of the fan-out
Suspend(qid, r) ==
    LET ids == {r.requests[i].id : i \in 1..Len(r.requests)}
    IN  /\ pendingRecs' =
              [q \in DOMAIN pendingRecs \cup {qid} |->
                  IF q = qid
                  THEN PendingRequest(<<>>, r.waiting_for, qid, r.all_scores)
                  ELSE pendingRecs[q]]
        /\ pending_requests' =
              [id \in DOMAIN pending_requests \cup ids |->
                  IF id \in ids THEN qid ELSE pending_requests[id]]
        /\ subQueries' = subQueries \cup
              {[id |-> r.requests[i].id, peer |-> r.requests[i].peer,
                query |-> r.requests[i].query, parent |-> qid,
                status |-> "sent", scores |-> <<>>] :
                  i \in 1..Len(r.requests)}
        /\ nextRequestId' = nextRequestId + Len(r.requests)

\* a cleanup that leaves the index as it is
RetainOthers_All(table, qid) == table
\* self.pending_requests.retain(|_, v| !Arc::ptr_eq(v, &pending_arc))
RetainOthers(table, qid) ==
    [id \in {i \in DOMAIN table : table[i] # qid} |-> table[id]]

\* a cleanup that keeps the record
RemoveRecord_Keep(recs, qid) == recs
\* the record is dropped with the last reference to it
RemoveRecord(recs, qid) ==
    [q \in DOMAIN recs \ {qid} |-> recs[q]]

(***************************************************************************)
(* api.rs: the front-end sends a command with a fresh reply channel.       *)
(***************************************************************************)
Last(seq) == seq[Len(seq)]

QueryTrustCommand(query) == [type |-> "QueryTrust", query |-> query]
AddExperienceCommand(experience) ==
    [type |-> "AddExperience", experience |-> experience]

SendCommand ==
    /\ pc # "terminated"
    /\ issued + inboundCount < MaxChannels
    /\ Len(command_rx) < CommandChannelCapacity
    /\ \E cmd \in {QueryTrustCommand(q) : q \in CommandQueries}
                  \cup {AddExperienceCommand(ExperienceA2)} :
           command_rx' = Append(command_rx,
                                [id |-> issued + inboundCount + 1, cmd |-> cmd])
    /\ issued' = issued + 1
    /\ oneshot' = [oneshot EXCEPT ![issued + inboundCount + 1] = Open]
    /\ queryLog' = [queryLog EXCEPT ![issued + inboundCount + 1] =
          LogEntry(Last(command_rx').cmd.type,
                   IF Last(command_rx').cmd.type = "QueryTrust"
                   THEN Last(command_rx').cmd.query ELSE <<>>,
                   FALSE, FALSE, <<>>, <<>>)]
    /\ UNCHANGED <<now, experiences, storedPeers, cachedScores, cache, peers,
                   connected, pending_requests, pendingRecs, subQueries,
                   nextRequestId, inboundCount, responseChannel, pc>>
    /\ UNCHANGED call

(***************************************************************************)
(* node.rs handle_command.                                                 *)
(***************************************************************************)
\* NodeCommand::AddExperience: the result of the store is the reply
HandleAddExperience ==
    /\ pc = "loop"
    /\ Len(command_rx) > 0
    /\ Head(command_rx).cmd.type = "AddExperience"
    /\ \E storage_ok \in BOOLEAN :
        LET c == Head(command_rx)
            duplicate == \E i \in 1..Len(experiences) :
                             experiences[i].id = c.cmd.experience.id
        IN  /\ IF storage_ok /\ ~duplicate
               THEN /\ experiences' = Append(experiences, c.cmd.experience)
                    /\ oneshot' = SendReply(oneshot, c.id, [ok |-> TRUE])
               ELSE /\ experiences' = experiences
                    /\ oneshot' = SendReply(oneshot, c.id, ErrResult("storage"))
            /\ queryLog' = [queryLog EXCEPT
                  ![c.id].handled = TRUE,
                  ![c.id].storage_error = ~(storage_ok /\ ~duplicate)]
    /\ command_rx' = Tail(command_rx)
    /\ UNCHANGED <<now, storedPeers, cachedScores, cache, peers, connected,
                   pending_requests, pendingRecs, subQueries, nextRequestId,
                   issued, inboundCount, responseChannel, pc>>
    /\ UNCHANGED call

\* what the QueryTrust arm does with the outcome r of process_trust_query
QueryTrustEffects(c, r) ==
    /\ cache' = r.memo
    /\ queryLog' = [queryLog EXCEPT ![c.id] =
          LogEntry("QueryTrust", c.cmd.query, TRUE, r.kind = "error",
                   r.all_scores, FanOutHandles(peers, connected))]
    /\ \/ /\ r.kind = "error"
          /\ Terminated
          /\ oneshot' = DropSenders(oneshot)
          /\ UNCHANGED nextRequestId
       \/ /\ r.kind = "pending"
          /\ Suspend(c.id, r)
          /\ command_rx' = Tail(command_rx)
          /\ UNCHANGED <<oneshot, pc>>
       \/ /\ r.kind = "reply"
          /\ oneshot' = SendReply(oneshot, c.id, OkResult(r.response))
          /\ command_rx' = Tail(command_rx)
          /\ UNCHANGED <<pending_requests, pendingRecs, subQueries,
                         nextRequestId, pc>>

\* NodeCommand::QueryTrust: self.process_trust_query(query, response).await?
HandleQueryTrust ==
    /\ pc = "loop"
    /\ Len(command_rx) > 0
    /\ Head(command_rx).cmd.type = "QueryTrust"
    /\ \E storage_ok, cached_ok \in BOOLEAN :
          QueryTrustEffects(Head(command_rx),
              process_trust_query(Head(command_rx).cmd.query, storage_ok, cached_ok))
    /\ UNCHANGED <<now, experiences, storedPeers, cachedScores, peers, connected,
                   issued, inboundCount, responseChannel>>
    /\ UNCHANGED call

(***************************************************************************)
(* node.rs handle_trust_query: a query of a requesting peer.               *)
(***************************************************************************)
\* what handle_trust_query does with the outcome r of process_trust_query;
\* channel_open tells whether the requesting peer still takes the response
TrustQueryEffects(qid, query, r, channel_open) ==
    /\ cache' = r.memo
    /\ queryLog' = [queryLog EXCEPT ![qid] =
          LogEntry("peer", query, TRUE, r.kind = "error",
                   r.all_scores, FanOutHandles(peers, connected))]
    /\ \/ \* process_trust_query(query, tx).await? returns the error
          /\ r.kind = "error"
          /\ Terminated
          /\ oneshot' = DropSenders([oneshot EXCEPT ![qid] = Dropped])
          /\ responseChannel' = [responseChannel EXCEPT ![qid] = Dropped]
          /\ UNCHANGED nextRequestId
       \/ \* tx is stored in the pending record; rx.await does not return
          /\ r.kind = "pending"
          /\ Suspend(qid, r)
          /\ oneshot' = [oneshot EXCEPT ![qid] = Open]
          /\ responseChannel' = [responseChannel EXCEPT ![qid] = Open]
          /\ pc' = "await_rx"
          /\ UNCHANGED command_rx
       \/ \* Ok(Ok(response)): send_response(channel, response)
          /\ r.kind = "reply"
          /\ channel_open
          /\ oneshot' = [oneshot EXCEPT ![qid] = Sent(OkResult(r.response))]
          /\ responseChannel' =
                [responseChannel EXCEPT ![qid] = Sent(r.response)]
          /\ UNCHANGED <<pending_requests, pendingRecs, subQueries,
                         nextRequestId, command_rx, pc>>
       \/ \* send_response fails: map_err(..)? returns the error
          /\ r.kind = "reply"
          /\ ~channel_open
          /\ Terminated
          /\ oneshot' = DropSenders(
                [oneshot EXCEPT ![qid] = Sent(OkResult(r.response))])
          /\ responseChannel' = [responseChannel EXCEPT ![qid] = Closed]
          /\ UNCHANGED nextRequestId

HandleTrustQuery ==
    /\ pc = "loop"
    /\ issued + inboundCount < MaxChannels
    /\ connected # {}
    /\ \E query \in InboundQueries, storage_ok, cached_ok, channel_open \in BOOLEAN :
          TrustQueryEffects(issued + inboundCount + 1, query,
              process_trust_query(query, storage_ok, cached_ok), channel_open)
    /\ inboundCount' = inboundCount + 1
    /\ UNCHANGED <<now, experiences, storedPeers, cachedScores, peers, connected,
                   issued>>
    /\ UNCHANGED call

(***************************************************************************)
(* node.rs handle_trust_response: a sub-query is answered.                 *)
(***************************************************************************)
RECURSIVE CacheScores_Anonymous(_, _, _, _, _)
\* a caching loop that does not record the answering peer
CacheScores_Anonymous(table, scores, i, from_peer, now_) ==
    IF i > Len(scores) THEN table
    ELSE CacheScores_Anonymous(cache_trust_score(table,
                        CachedTrustScore(scores[i].agent, scores[i].score,
                                         "unknown", now_)),
                     scores, i + 1, from_peer, now_)
RECURSIVE CacheScores(_, _, _, _, _)
\* the "Cache the received trust scores" loop
CacheScores(table, scores, i, from_peer, now_) ==
    IF i > Len(scores) THEN table
    ELSE CacheScores(cache_trust_score(table,
                        CachedTrustScore(scores[i].agent, scores[i].score,
                                         from_peer, now_)),
                     scores, i + 1, from_peer, now_)

RECURSIVE AddPeerScores_Quality(_, _, _)
\* a fan-in that weighs the merged peer score with the quality of peer B
AddPeerScores_Quality(table, scores, i) ==
    IF i > Len(scores) THEN table
    ELSE AddPeerScores_Quality(Push(table, scores[i].agent,
                                    <<"peers", scores[i].score, QualityB1>>),
                               scores, i + 1)
RECURSIVE AddPeerScores(_, _, _)
\* final_all_scores.entry(key).or_default().push(("peers", score, 1.0))
AddPeerScores(table, scores, i) ==
    IF i > Len(scores) THEN table
    ELSE AddPeerScores(Push(table, scores[i].agent,
                            <<"peers", scores[i].score, R(1)>>),
                       scores, i + 1)

\* the reply of handle_trust_response once the waiting set is empty
ResponseFanIn(pending, now_) ==
    LET peer_response == merge_responses(pending.responses, now_)
        final_all_scores == AddPeerScores(pending.local_scores,
                                          peer_response.scores, 1)
    IN  OkResult(TrustResponse(FinalScores(final_all_scores), now_))

\* the reply of handle_request_failure once the waiting set is empty
FailureFanIn(pending, now_) ==
    IF Len(pending.responses) = 0
    THEN ErrResult("All requests failed")
    ELSE OkResult(merge_responses(pending.responses, now_))

\* an outcome that leaves the peer in the waiting set
WaitingAfter_Same(pending, peer) == pending.waiting_for
\* pending.waiting_for.remove(&peer)
WaitingAfter(pending, peer) ==
    pending.waiting_for \ {peer}

\* handle_trust_response on an answer drawn from score_lists
TrustResponseArrives(score_lists) ==
    /\ pc = "loop"
    /\ \E req \in Outstanding, scores \in score_lists, cache_ok \in BOOLEAN :
        LET response == TrustResponse(scores, now)
        IN  /\ cachedScores' =
                  IF cache_ok
                  THEN CacheScores(cachedScores, scores, 1,
                                   PeerIdToString(req.peer), now)
                  ELSE cachedScores
            /\ subQueries' = (subQueries \ {req}) \cup
                  {[req EXCEPT !.status = "response", !.scores = scores]}
            /\ IF req.id \in DOMAIN pending_requests
               THEN LET qid == pending_requests[req.id]
                        pending == [pendingRecs[qid] EXCEPT
                            !.responses = Append(@,
                                [response |-> response,
                                 peer_id |-> PeerIdToString(req.peer)]),
                            !.waiting_for = WaitingAfter(pendingRecs[qid], req.peer)]
                    IN  IF pending.waiting_for = {}
                        THEN /\ pending_requests' = RetainOthers(pending_requests, qid)
                             /\ pendingRecs' = RemoveRecord(pendingRecs, qid)
                             /\ oneshot' = SendReply(oneshot, pending.response_channel,
                                                  ResponseFanIn(pending, now))
                        ELSE /\ pendingRecs' = [pendingRecs EXCEPT ![qid] = pending]
                             /\ UNCHANGED <<pending_requests, oneshot>>
               ELSE UNCHANGED <<pending_requests, pendingRecs, oneshot>>
    /\ UNCHANGED <<now, experiences, storedPeers, cache, peers, connected,
                   queryLog, nextRequestId, command_rx, issued, inboundCount,
                   responseChannel, pc>>
    /\ UNCHANGED call

HandleTrustResponse == TrustResponseArrives(PeerScoreLists)

(***************************************************************************)
(* node.rs handle_request_failure: a sub-query fails (timeout, dial or     *)
(* codec error, connection closed).                                        *)
(***************************************************************************)
HandleRequestFailure ==
    /\ pc = "loop"
    /\ \E req \in Outstanding :
        /\ subQueries' = (subQueries \ {req}) \cup
              {[req EXCEPT !.status = "failure"]}
        /\ IF req.id \in DOMAIN pending_requests
           THEN LET qid == pending_requests[req.id]
                    pending == [pendingRecs[qid] EXCEPT
                        !.waiting_for = WaitingAfter(pendingRecs[qid], req.peer)]
                IN  IF pending.waiting_for = {}
                    THEN /\ pending_requests' = RetainOthers(pending_requests, qid)
                         /\ pendingRecs' = RemoveRecord(pendingRecs, qid)
                         /\ oneshot' = SendReply(oneshot, pending.response_channel,
                                              FailureFanIn(pending, now))
                    ELSE /\ pendingRecs' = [pendingRecs EXCEPT ![qid] = pending]
                         /\ UNCHANGED <<pending_requests, oneshot>>
           ELSE UNCHANGED <<pending_requests, pendingRecs, oneshot>>
    /\ UNCHANGED <<now, experiences, storedPeers, cachedScores, cache, peers,
                   connected, queryLog, nextRequestId, command_rx, issued,
                   inboundCount, responseChannel, pc>>
    /\ UNCHANGED call

(***************************************************************************)
(* node.rs handle_swarm_event: connections come and go.                    *)
(***************************************************************************)
ConnectionEstablished ==
    /\ pc = "loop"
    /\ \E peer_id \in PeerIds \ connected : connected' = connected \cup {peer_id}
    /\ UNCHANGED <<now, experiences, storedPeers, cachedScores, cache, peers,
                   pending_requests, pendingRecs, subQueries, queryLog,
                   nextRequestId, command_rx, issued, oneshot, inboundCount,
                   responseChannel, pc>>
    /\ UNCHANGED call

ConnectionClosed ==
    /\ pc = "loop"
    /\ \E peer_id \in connected : connected' = connected \ {peer_id}
    /\ UNCHANGED <<now, experiences, storedPeers, cachedScores, cache, peers,
                   pending_requests, pendingRecs, subQueries, queryLog,
                   nextRequestId, command_rx, issued, oneshot, inboundCount,
                   responseChannel, pc>>
    /\ UNCHANGED call

\* time passes
Tick ==
    /\ now < MaxTime
    /\ now' = now + 1
    /\ UNCHANGED <<experiences, storedPeers, cachedScores, cache, peers, connected,
                   pending_requests, pendingRecs, subQueries, queryLog,
                   nextRequestId, command_rx, issued, oneshot, inboundCount,
                   responseChannel, pc>>
    /\ UNCHANGED call

Next ==
    \/ SendCommand
    \/ HandleAddExperience
    \/ HandleQueryTrust
    \/ HandleTrustQuery
    \/ HandleTrustResponse
    \/ HandleRequestFailure
    \/ ConnectionEstablished
    \/ ConnectionClosed
    \/ Tick

Spec == Init /\ [][Next]_vars

\* The select loop of run() takes up a queued command and a swarm event that
\* is ready whenever it is polled, and the transport ends every outbound
\* request with a response or with a failure (the request timeout).
FairSpec ==
    /\ Spec
    /\ WF_vars(HandleAddExperience)
    /\ WF_vars(HandleQueryTrust)
    /\ WF_vars(HandleTrustResponse \/ HandleRequestFailure)

(***************************************************************************)
(* The properties.                                                         *)
(***************************************************************************)
IsQuery(q) == queryLog[q].kind \in {"QueryTrust", "peer"}
SubQueriesOf(q) == {req \in subQueries : req.parent = q}
Replied(q) == oneshot[q].state = "sent"

\* C1: every QueryTrust command eventually receives a reply on its channel
\* (at once, or when the waiting set of its fan-out has drained).
C1_QueryTrustEventuallyReplied ==
    \A q \in QueryIds :
        [](queryLog[q].kind = "QueryTrust" => <>Replied(q))

\* C2: a node that fanned out for an inbound peer query of depth > 0 is in
\* its event loop while the sub-queries are outstanding.
C2_FanOutKeepsProcessing ==
    \A q \in QueryIds :
        (/\ queryLog[q].kind = "peer"
         /\ queryLog[q].handled
         /\ queryLog[q].query.max_depth > 0
         /\ queryLog[q].candidates # <<>>
         /\ \E req \in SubQueriesOf(q) : req.status = "sent")
        => pc = "loop"

\* C3: when every sub-query of a fan-out has failed, the reply is a success
\* carrying the merged Phase-1 table if that table is non-empty, and an
\* error only if the table is empty.
C3_AllFailedRepliesPhaseOne ==
    \A q \in QueryIds :
        (/\ IsQuery(q)
         /\ Replied(q)
         /\ SubQueriesOf(q) # {}
         /\ \A req \in SubQueriesOf(q) : req.status = "failure")
        => IF queryLog[q].all_scores # EmptyTable
           THEN /\ oneshot[q].value.ok
                /\ oneshot[q].value.response.scores =
                      FinalScores(queryLog[q].all_scores)
           ELSE ~oneshot[q].value.ok

\* C4: when at least one sub-query was answered and all the others failed,
\* the reply is a success that has a score for every agent the responders
\* scored, and with an empty Phase-1 table and a single responder it is
\* exactly that responder's scores.
C4_PartialFailureRepliesSuccess ==
    \A q \in QueryIds :
        LET answered == {req \in SubQueriesOf(q) : req.status = "response"}
            failed == {req \in SubQueriesOf(q) : req.status = "failure"}
        IN  (/\ IsQuery(q)
             /\ Replied(q)
             /\ answered # {}
             /\ failed # {}
             /\ answered \cup failed = SubQueriesOf(q))
            => /\ oneshot[q].value.ok
               /\ \A req \in answered : \A i \in 1..Len(req.scores) :
                     \E j \in 1..Len(oneshot[q].value.response.scores) :
                        oneshot[q].value.response.scores[j].agent =
                            req.scores[i].agent
               /\ (queryLog[q].all_scores = EmptyTable /\ Cardinality(answered) = 1)
                  => \A req \in answered :
                        oneshot[q].value.response.scores = req.scores

\* C5: a fan-out query is replied to no earlier than every one of its
\* sub-queries has been answered or has failed.
C5_ReplyAfterAllSubQueries ==
    \A q \in QueryIds :
        Replied(q) => \A req \in SubQueriesOf(q) : req.status # "sent"

\* the reply that Phase 1 alone gives: the node's experiences and the cached
\* opinions of its store, nothing else
LocalReplyScores(query, cached_ok) ==
    LET point_in_time == IF query.point_in_time = NoValue THEN now
                         ELSE query.point_in_time[1]
        forget_rate == IF query.forget_rate = NoValue THEN R(0)
                       ELSE query.forget_rate[1]
    IN  FinalScores(
            CachedContributions(query.agents, 1,
                PersonalScores(query.agents, 1, cache, EmptyTable, experiences,
                               point_in_time, forget_rate, now, TRUE).table,
                cachedScores, peers, now, cached_ok))

\* C6: the handling of a query with max_depth = 0, a command or a peer's,
\* sends no sub-query and creates no pending record, and its reply is what
\* the local experiences and the cached opinions alone give.
C6_DepthZeroStaysLocal ==
    [][\A q \in QueryIds :
          (/\ ~queryLog[q].handled
           /\ queryLog'[q].handled
           /\ queryLog'[q].kind \in {"QueryTrust", "peer"}
           /\ queryLog'[q].query.max_depth = 0)
          => /\ subQueries' = subQueries
             /\ DOMAIN pendingRecs' \subseteq DOMAIN pendingRecs
             /\ DOMAIN pending_requests' \subseteq DOMAIN pending_requests
             /\ oneshot'[q].state = "sent"
                => /\ oneshot'[q].value.ok
                   /\ \E cached_ok \in BOOLEAN :
                         oneshot'[q].value.response.scores =
                             LocalReplyScores(queryLog'[q].query, cached_ok)
      ]_vars

\* a command and a peer's query of depth 0 were both answered while a peer of
\* the registry was connected
C6_DepthZeroAnsweredWhileConnected ==
    /\ \E q \in QueryIds :
          /\ queryLog[q].kind = "QueryTrust"
          /\ queryLog[q].query.max_depth = 0
          /\ queryLog[q].candidates # <<>>
          /\ Replied(q)
    /\ \E q \in QueryIds :
          /\ queryLog[q].kind = "peer"
          /\ queryLog[q].query.max_depth = 0
          /\ queryLog[q].candidates # <<>>
          /\ responseChannel[q].state = "sent"

\* C7: every sub-query has a depth strictly smaller than the query it was
\* sent for, and a node that is handling a query always gets back to its
\* event loop.
C7_EveryHandlingReturnsToLoop ==
    /\ [](\A req \in subQueries :
             req.query.max_depth < queryLog[req.parent].query.max_depth)
    /\ (pc = "await_rx") ~> (pc = "loop")

\* C8: the protocol channel of an inbound peer query is never dropped
\* without a response.
C8_InboundChannelNeverDropped ==
    \A q \in QueryIds : responseChannel[q].state # "dropped"

\* C9: a command whose handling met a storage error has the failure value
\* on its reply channel.
C9_StorageErrorIsDelivered ==
    \A q \in QueryIds :
        (/\ queryLog[q].kind \in {"QueryTrust", "AddExperience"}
         /\ queryLog[q].storage_error)
        => /\ Replied(q)
           /\ ~oneshot[q].value.ok

\* scenario S4: the node has nothing of its own on the agent, its only
\* registered peer is B with quality -0.5, B answers (0.6, 1000, 3) to the
\* one sub-query, and the reply is out
ContrarianCase(q) ==
    /\ queryLog[q].kind = "QueryTrust"
    /\ queryLog[q].handled
    /\ queryLog[q].query.agents = <<AgentA>>
    /\ queryLog[q].all_scores = EmptyTable
    /\ DOMAIN peers = {HandleB1}
    /\ peers[HandleB1].recommender_quality = Rat(-1, 2)
    /\ Cardinality(SubQueriesOf(q)) = 1
    /\ \A req \in SubQueriesOf(q) :
          /\ req.status = "response"
          /\ req.peer = "B"
          /\ req.scores = <<AgentScore(AgentA, TrustScore(Rat(3, 5), R(1000), 3))>>
    /\ Replied(q)

\* C10 as stated: in scenario S4 the reply is (1.4, 500, 3).
C10_ContrarianReplyReflected ==
    \A q \in QueryIds :
        ContrarianCase(q)
        => /\ oneshot[q].value.ok
           /\ oneshot[q].value.response.scores =
                 <<AgentScore(AgentA, TrustScore(Rat(7, 5), R(500), 3))>>

\* C10: in scenario S4 the reply is (0.6, 1000, 3): the fresh response of B
\* enters the merge with weight 1.0, B's quality is not applied to it.
C10_ContrarianReplyAsAnswered ==
    \A q \in QueryIds :
        ContrarianCase(q)
        => /\ oneshot[q].value.ok
           /\ oneshot[q].value.response.scores =
                 <<AgentScore(AgentA, TrustScore(Rat(3, 5), R(1000), 3))>>

\* scenario S4 has happened
C10_ContrarianCaseReached == \E q \in QueryIds : ContrarianCase(q)

RECURSIVE PushAllWeightOne(_, _, _)
\* the table with every score of the list added as a contribution of weight 1
PushAllWeightOne(table, scores, i) ==
    IF i > Len(scores) THEN table
    ELSE PushAllWeightOne(Push(table, scores[i].agent,
                               <<"fresh", scores[i].score, R(1)>>),
                          scores, i + 1)

RECURSIVE PushResponsesWeightOne(_, _, _)
PushResponsesWeightOne(table, responses, i) ==
    IF i > Len(responses) THEN table
    ELSE PushResponsesWeightOne(
            PushAllWeightOne(table, responses[i].response.scores, 1),
            responses, i + 1)

\* the registry qualities of the handles that resolve to a transport peer
QualitiesOf(peer_id) ==
    {peers[h].recommender_quality :
        h \in {g \in DOMAIN peers : MultiaddrPeerId(peers[g].peer_id) = peer_id}}

\* the query had an empty Phase-1 table and one sub-query, sent to a peer
\* registered with the given quality, which answered with the given score
\* for the agent; the reply is out
SingleFreshAnswer(q, quality, score) ==
    /\ queryLog[q].kind = "QueryTrust"
    /\ queryLog[q].handled
    /\ queryLog[q].query.agents = <<AgentA>>
    /\ queryLog[q].query.max_depth = 1
    /\ queryLog[q].all_scores = EmptyTable
    /\ Cardinality(SubQueriesOf(q)) = 1
    /\ \A req \in SubQueriesOf(q) :
          /\ req.status = "response"
          /\ QualitiesOf(req.peer) = {quality}
          /\ req.scores = <<AgentScore(AgentA, score)>>
    /\ Replied(q)

\* C11: when the last answer of a fan-out arrives, the reply is the fusion of
\* the Phase-1 contributions with every score of every response at weight
\* 1.0, whatever quality the registry holds for the responders; in scenario
\* S3 (nothing local, peer of quality 1.0 answers (1.2, 1000, 3)) the reply is
\* (1.2, 1000, 3).
C11_FreshResponsesWeighOne ==
    /\ [][\A q \in DOMAIN pendingRecs :
            (/\ oneshot[q].state = "open"
             /\ oneshot'[q].state = "sent"
             /\ \E req \in subQueries' \ subQueries : req.status = "response")
            => LET req == CHOOSE r \in subQueries' \ subQueries : TRUE
               IN  /\ oneshot'[q].value.ok
                   /\ oneshot'[q].value.response.scores =
                         FinalScores(PushAllWeightOne(
                             PushResponsesWeightOne(pendingRecs[q].local_scores,
                                                    pendingRecs[q].responses, 1),
                             req.scores, 1))
       ]_vars
    /\ [](\A q \in QueryIds :
            SingleFreshAnswer(q, R(1), TrustScore(Rat(6, 5), R(1000), 3))
            => /\ oneshot[q].value.ok
               /\ oneshot[q].value.response.scores =
                     <<AgentScore(AgentA, TrustScore(Rat(6, 5), R(1000), 3))>>)

\* scenario S3 has happened, and so has a reply to a fan-out whose single
\* responder is registered with a quality other than 1.0
C11_FreshAnswersOfBothQualitiesMerged ==
    /\ \E q \in QueryIds :
          SingleFreshAnswer(q, R(1), TrustScore(Rat(6, 5), R(1000), 3))
    /\ \E q \in QueryIds :
          SingleFreshAnswer(q, Rat(-1, 2), TrustScore(Rat(6, 5), R(1000), 3))

\* the contributions of weight 0 taken out of a table, and with them the
\* agents that have no other contribution
DropZeroWeight(table) ==
    LET kept(a) == SelectSeq(table[a], LAMBDA c : ~RIsZero(c[3]))
    IN  [a \in {b \in DOMAIN table : Len(kept(b)) > 0} |-> kept(a)]

\* the scores that carry information
Informative(scores) == SelectSeq(scores, LAMBDA a : a.score # DefaultScore)

\* C12: the reply to a query answered from Phase 1 alone is what it would be
\* without the contributions of the peers of quality 0 (an agent left with
\* no contribution carries no information).
C12_ZeroQualityContributesNothing ==
    \A q \in QueryIds :
        (/\ IsQuery(q)
         /\ queryLog[q].handled
         /\ Replied(q)
         /\ SubQueriesOf(q) = {})
        => /\ oneshot[q].value.ok
           /\ Informative(oneshot[q].value.response.scores) =
                 Informative(FinalScores(DropZeroWeight(queryLog[q].all_scores)))

(***************************************************************************)
(* types.rs: merge_multiple called on its own, on every short list of      *)
(* weighted scores.                                                        *)
(***************************************************************************)
\* the longest list of contributions handed to merge_multiple
MaxContributions == 3

\* the variables of the network actor
nodeVars == <<now, experiences, storedPeers, cachedScores, cache, peers,
              connected, pending_requests, pendingRecs, subQueries, queryLog,
              nextRequestId, command_rx, issued, oneshot, inboundCount,
              responseChannel, pc>>

\* a store with nothing in it
EmptyStore == [experiences |-> <<>>, peers |-> PeerTable({}), cached |-> <<>>]

\* the sequences over S of length at most n
SeqsUpTo(S, n) == UNION {[1..k -> S] : k \in 0..n}

\* scores handed to the fusion: one of them has volume 0
MergeScores ==
    {TrustScore(Rat(6, 5), R(1000), 3),
     TrustScore(Rat(4, 5), R(0), 1),
     TrustScore(Rat(3, 5), R(500), 2)}
\* their weights: full, none, contrarian
MergeWeights == {R(1), R(0), Rat(-1, 2)}
Contributions == MergeScores \X MergeWeights

MergeCall(scores, done, result) ==
    [op |-> "merge_multiple", scores |-> scores, done |-> done,
     result |-> result]

MergeInit ==
    /\ NodeInit(EmptyStore)
    /\ \E scores \in SeqsUpTo(Contributions, MaxContributions) :
          call = MergeCall(scores, FALSE, DefaultScore)

\* TrustScore::merge_multiple(call.scores)
CallMergeMultiple ==
    /\ call.op = "merge_multiple"
    /\ ~call.done
    /\ call' = MergeCall(call.scores, TRUE, merge_multiple(call.scores))
    /\ UNCHANGED nodeVars

\* the sequence with its entries i and i + 1 exchanged
SwapAt(seq, i) ==
    [k \in 1..Len(seq) |-> IF k = i THEN seq[i + 1]
                           ELSE IF k = i + 1 THEN seq[i]
                           ELSE seq[k]]

\* TrustScore::merge_multiple on the same contributions in another order
CallMergeMultipleReordered ==
    /\ call.op = "merge_multiple"
    /\ call.done
    /\ \E i \in 1..(Len(call.scores) - 1) :
          call' = MergeCall(SwapAt(call.scores, i), TRUE,
                            merge_multiple(SwapAt(call.scores, i)))
    /\ UNCHANGED nodeVars

MergeNext == CallMergeMultiple \/ CallMergeMultipleReordered

MergeSpec == MergeInit /\ [][MergeNext]_vars

RECURSIVE EffectiveVolume(_, _)
\* the sum of v_i * |w_i| over the entries from i on
EffectiveVolume(scores, i) ==
    IF i > Len(scores) THEN R(0)
    ELSE RAdd(RMul(scores[i][1].total_volume, RAbs(scores[i][2])),
              EffectiveVolume(scores, i + 1))

RECURSIVE EffectiveRoiSum(_, _)
\* the sum of r_i' * v_i * |w_i| over the entries from i on, where r_i' is
\* 2 - r_i for a negative weight and r_i otherwise
EffectiveRoiSum(scores, i) ==
    IF i > Len(scores) THEN R(0)
    ELSE RAdd(RMul(IF RNeg(scores[i][2])
                   THEN RSub(R(2), scores[i][1].expected_pv_roi)
                   ELSE scores[i][1].expected_pv_roi,
                   RMul(scores[i][1].total_volume, RAbs(scores[i][2]))),
              EffectiveRoiSum(scores, i + 1))

RECURSIVE PointsSum(_, _)
PointsSum(scores, i) ==
    IF i > Len(scores) THEN 0
    ELSE scores[i][1].data_points + PointsSum(scores, i + 1)

\* the fusion as one weighted average
FusedAtOnce(scores) ==
    IF RIsZero(EffectiveVolume(scores, 1)) THEN DefaultScore
    ELSE TrustScore(RDiv(EffectiveRoiSum(scores, 1), EffectiveVolume(scores, 1)),
                    EffectiveVolume(scores, 1), PointsSum(scores, 1))

\* C13: merge_multiple returns the volume sum of v_i * |w_i|, the average of
\* the (reflected, for negative weights) ROIs weighted by v_i * |w_i|, and
\* the sum of the data points; when the effective volume is 0 (empty list,
\* only zero-volume or zero-weight entries) it returns (1.0, 0.0, 0).
C13_MergeMultipleIsWeightedAverage ==
    (call.op = "merge_multiple" /\ call.done)
    => call.result = FusedAtOnce(call.scores)

\* C14: merging the same contributions in another order gives the same
\* score, zero-volume and zero-weight entries included.
C14_MergeMultipleOrderIndependent ==
    [][(/\ call.op = "merge_multiple"
        /\ call.done
        /\ call'.done)
       => call'.result = call.result]_vars

(***************************************************************************)
(* query_engine.rs with the experience commands of node.rs: the local      *)
(* score computed between changes of the experience set.                   *)
(***************************************************************************)
\* an experience a year older than the others
ExperienceOld == Experience("e0", AgentA, Rat(1, 2), R(50), -365)
EngineExperiences == {ExperienceA1, ExperienceA2, ExperienceOld}
\* the forget rates asked for: no decay, and full decay within a year
EngineForgetRates == {R(0), R(1)}
\* the point in time asked for
EnginePointInTime == 0

EngineInit ==
    /\ NodeInit(EmptyStore)
    /\ call = NoCall

\* storage.add_experience: a plain INSERT, refused on an id already stored
add_experience(table, experience) ==
    IF \E i \in 1..Len(table) : table[i].id = experience.id
    THEN table
    ELSE Append(table, experience)

\* storage.remove_experience: DELETE ... WHERE id = ?1
remove_experience(table, experience_id) ==
    SelectSeq(table, LAMBDA e : e.id # experience_id)

\* what the experience commands leave alone
EngineUnchanged ==
    UNCHANGED <<now, storedPeers, cachedScores, cache, peers, connected,
                pending_requests, pendingRecs, subQueries, queryLog,
                nextRequestId, command_rx, issued, oneshot, inboundCount,
                responseChannel, pc>>

\* handle_command, the AddExperience arm
CmdAddExperience ==
    /\ \E e \in EngineExperiences :
          experiences' = add_experience(experiences, e)
    /\ call' = [op |-> "add_experience"]
    /\ EngineUnchanged

\* handle_command, the RemoveExperience arm
CmdRemoveExperience ==
    /\ \E e \in EngineExperiences :
          experiences' = remove_experience(experiences, e.id)
    /\ call' = [op |-> "remove_experience"]
    /\ EngineUnchanged

\* handle_command, the ClearExperiences arm
CmdClearExperiences ==
    /\ experiences' = <<>>
    /\ call' = [op |-> "clear_experiences"]
    /\ EngineUnchanged

\* the call with its inputs (the experiences table as it was read included)
\* and the score returned
ScoreCall(table, agent, point_in_time, forget_rate, r) ==
    [op |-> "calculate_trust_score", experiences |-> table, agent |-> agent,
     point_in_time |-> point_in_time, forget_rate |-> forget_rate,
     score |-> r.score]

\* query_engine.calculate_trust_score for the agent
CallCalculateTrustScore ==
    /\ \E forget_rate \in EngineForgetRates :
          LET r == calculate_trust_score(cache, experiences, AgentA,
                                         EnginePointInTime, forget_rate, now,
                                         TRUE)
          IN  /\ cache' = r.memo
              /\ call' = ScoreCall(experiences, AgentA, EnginePointInTime,
                                   forget_rate, r)
    /\ UNCHANGED <<now, experiences, storedPeers, cachedScores, peers, connected,
                   pending_requests, pendingRecs, subQueries, queryLog,
                   nextRequestId, command_rx, issued, oneshot, inboundCount,
                   responseChannel, pc>>

\* the clock moves on: the memo entries written before it expire
EngineTick ==
    /\ now < MaxTime
    /\ now' = now + 1
    /\ UNCHANGED <<experiences, storedPeers, cachedScores, cache, peers,
                   connected, pending_requests, pendingRecs, subQueries,
                   queryLog, nextRequestId, command_rx, issued, oneshot,
                   inboundCount, responseChannel, pc, call>>

EngineNext ==
    \/ CmdAddExperience
    \/ CmdRemoveExperience
    \/ CmdClearExperiences
    \/ CallCalculateTrustScore
    \/ EngineTick

EngineSpec == EngineInit /\ [][EngineNext]_vars

\* the experiences of the agent the call was made for
CallExperiences == get_experiences(call.experiences, call.agent)

RECURSIVE VolumeSum(_, _)
VolumeSum(exps, i) ==
    IF i > Len(exps) THEN R(0)
    ELSE RAdd(exps[i].invested_volume, VolumeSum(exps, i + 1))

RECURSIVE RoiVolumeSum(_, _)
RoiVolumeSum(exps, i) ==
    IF i > Len(exps) THEN R(0)
    ELSE RAdd(RMul(exps[i].pv_roi, exps[i].invested_volume),
              RoiVolumeSum(exps, i + 1))

\* the volume-weighted average of a set of experiences, undecayed
UndecayedScore(exps) ==
    IF Len(exps) = 0 THEN DefaultScore
    ELSE TrustScore(RDiv(RoiVolumeSum(exps, 1), VolumeSum(exps, 1)),
                    VolumeSum(exps, 1), Len(exps))

\* the call asked for no decay: rate 0, or every experience is of the very
\* point in time asked for
WithoutDecay ==
    \/ RIsZero(call.forget_rate)
    \/ \A i \in 1..Len(CallExperiences) :
          CallExperiences[i].timestamp = call.point_in_time

\* C15: without decay calculate_trust_score returns (sum of pv_roi * volume /
\* sum of volume, sum of volume, |E|) for the stored experiences E of the
\* agent, and (1.0, 0.0, 0) when E is empty.
C15_LocalScoreWithoutDecay ==
    (call.op = "calculate_trust_score" /\ WithoutDecay)
    => call.score = UndecayedScore(CallExperiences)

\* the experiences whose aged volume is positive
AgedIn(exps, point_in_time, forget_rate) ==
    SelectSeq(exps, LAMBDA e : RPos(aged_volume(e, point_in_time, forget_rate)))

\* the score over the experiences that have not aged out
ScoreOfAgedIn(exps, point_in_time, forget_rate) ==
    IF Len(exps) = 0 THEN DefaultScore
    ELSE TrustScore(
            calculate_weighted_average(exps, point_in_time, forget_rate)[1],
            calculate_weighted_average(exps, point_in_time, forget_rate)[2],
            Len(exps))

\* C16: experiences with aged volume 0 are dropped from the local score:
\* data_points counts the experiences with positive aged volume only, and
\* the score is (1.0, 0.0, 0) when all of them have aged out.
C16_AgedOutExperiencesDropped ==
    call.op = "calculate_trust_score"
    => call.score = ScoreOfAgedIn(
                        AgedIn(CallExperiences, call.point_in_time,
                               call.forget_rate),
                        call.point_in_time, call.forget_rate)

\* C17: the local score returned is the one derived from the experiences
\* now stored, never a value memoized before the experience set changed.
C17_MemoNeverStale ==
    call.op = "calculate_trust_score"
    => call.score =
          ScoreOfExperiences(CallExperiences,
              calculate_weighted_average(CallExperiences, call.point_in_time,
                                         call.forget_rate))

(***************************************************************************)
(* storage.rs: the cached_scores table under the caching of peer answers.  *)
(***************************************************************************)
\* the rows of the table for the pair
RowsOf(table, agent, from_peer) ==
    SelectSeq(table, LAMBDA c : c.agent = agent /\ c.from_peer = from_peer)

\* the agents a list of scores speaks of
AgentsOf(scores) == {scores[i].agent : i \in 1..Len(scores)}

\* the last score the list holds for the agent
LastScoreFor(scores, agent) ==
    scores[CHOOSE i \in 1..Len(scores) :
              /\ scores[i].agent = agent
              /\ \A j \in (i + 1)..Len(scores) : scores[j].agent # agent].score

\* the step cached the scores of the answer req of the peer: every pair
\* cached has the one row with the answer's score, every other row is as it
\* was
CachedAnswer(req) ==
    /\ req.status = "response"
    /\ \A a \in AgentsOf(req.scores) :
          RowsOf(cachedScores', a, PeerIdToString(req.peer)) =
             <<CachedTrustScore(a, LastScoreFor(req.scores, a),
                                PeerIdToString(req.peer), now)>>
    /\ SelectSeq(cachedScores',
                 LAMBDA c : ~(c.from_peer = PeerIdToString(req.peer)
                              /\ c.agent \in AgentsOf(req.scores)))
       = SelectSeq(cachedScores,
                   LAMBDA c : ~(c.from_peer = PeerIdToString(req.peer)
                                /\ c.agent \in AgentsOf(req.scores)))

\* C18: the cached-opinion table holds at most one row per (agent,
\* from_peer); caching an opinion for a pair that has a row replaces it with
\* the newly cached score, so that get_cached_scores returns one row per
\* peer, and the rows of the other peers stay as they were.
C18_OneCachedRowPerPair ==
    /\ [](\A a \in Agents :
            \A i, j \in 1..Len(get_cached_scores(cachedScores, a)) :
               get_cached_scores(cachedScores, a)[i].from_peer =
                  get_cached_scores(cachedScores, a)[j].from_peer => i = j)
    /\ [][cachedScores' # cachedScores
          => \E req \in subQueries' \ subQueries : CachedAnswer(req)]_vars

\* a peer has answered twice with different scores for the agent, another
\* peer has answered for the agent as well, and the table holds the second
\* answer of the first and the answer of the other
C18_RowReplacedBesideAnotherPeer ==
    \E r1, r2, r3 \in subQueries :
        /\ r1.status = "response" /\ r2.status = "response"
        /\ r3.status = "response"
        /\ r1.peer = r2.peer /\ r1.id < r2.id
        /\ r3.peer # r1.peer
        /\ Len(r1.scores) = 1 /\ Len(r2.scores) = 1 /\ Len(r3.scores) = 1
        /\ r1.scores # r2.scores
        /\ Len(RowsOf(cachedScores, AgentA, PeerIdToString(r1.peer))) = 1
        /\ RowsOf(cachedScores, AgentA, PeerIdToString(r1.peer))[1].score
              = r2.scores[1].score
        /\ Len(RowsOf(cachedScores, AgentA, PeerIdToString(r3.peer))) = 1
        /\ RowsOf(cachedScores, AgentA, PeerIdToString(r3.peer))[1].score
              = r3.scores[1].score

(***************************************************************************)
(* node.rs export_trust_data and import_trust_data: documents taken from   *)
(* a node and put into a node.                                             *)
(***************************************************************************)
\* an experience of the other agent
ExperienceOfB == Experience("e3", AgentB, Rat(9, 10), R(150), 0)

TrustDataExport(exps, peer_list) == [experiences |-> exps, peers |-> peer_list]

\* the stores of the nodes that export and import
ImportStores ==
    {[experiences |-> <<ExperienceOld, ExperienceA1, ExperienceA2>>,
      peers |-> PeerTable({HandleB1, HandleC}), cached |-> <<>>],
     [experiences |-> <<ExperienceA1>>, peers |-> PeerTable({HandleB1}),
      cached |-> <<CachedTrustScore(AgentA, ScoreOther, "C", 0)>>],
     EmptyStore}

\* documents handed in by the front-end
ImportDocuments ==
    {TrustDataExport(<<ExperienceA1, ExperienceOfB>>,
                     <<Peer(HandleB1, R(1)), Peer(HandleB2, QualityB2)>>),
     TrustDataExport(<<ExperienceA2>>, <<Peer(HandleC, QualityC)>>)}

\* SELECT ... FROM experiences ORDER BY timestamp DESC
get_all_experiences(table) ==
    Rows(SortDesc([i \in 1..Len(table) |-> <<table[i].timestamp, table[i]>>]))

\* SELECT ... FROM peers: the rows of the table, in the order of the handles
get_peers(stored) ==
    LET handles == SelectSeq(HandleOrder, LAMBDA h : h \in DOMAIN stored)
    IN  [i \in 1..Len(handles) |-> stored[handles[i]]]

export_trust_data(table, stored) ==
    TrustDataExport(get_all_experiences(table), get_peers(stored))

\* self.peers.insert(handle, peer)
InsertPeer(registry, peer) ==
    [h \in DOMAIN registry \cup {peer.peer_id} |->
        IF h = peer.peer_id THEN peer ELSE registry[h]]

RECURSIVE ImportExperiences_IfAbsent(_, _, _, _)
\* an import that adds an experience only to an agent that has none,
\* whatever the mode
ImportExperiences_IfAbsent(table, exps, i, overwrite) ==
    IF i > Len(exps) THEN [ok |-> TRUE, table |-> table]
    ELSE IF Len(get_experiences(table, exps[i].agent)) = 0
    THEN ImportExperiences_IfAbsent(Append(table, exps[i]), exps, i + 1,
                                    overwrite)
    ELSE ImportExperiences_IfAbsent(table, exps, i + 1, overwrite)
RECURSIVE ImportExperiences(_, _, _, _)
\* the "Import experiences" loop: the table after it, and whether every
\* INSERT went through (the first refused one ends the import)
ImportExperiences(table, exps, i, overwrite) ==
    IF i > Len(exps) THEN [ok |-> TRUE, table |-> table]
    ELSE IF overwrite \/ Len(get_experiences(table, exps[i].agent)) = 0
    THEN IF \E k \in 1..Len(table) : table[k].id = exps[i].id
         THEN [ok |-> FALSE, table |-> table]
         ELSE ImportExperiences(Append(table, exps[i]), exps, i + 1, overwrite)
    ELSE ImportExperiences(table, exps, i + 1, overwrite)

RECURSIVE ImportPeers(_, _, _, _, _)
\* the "Import peers" loop: registry and table after it; the registry is
\* written before the INSERT, which is refused on a handle already stored
ImportPeers(registry, stored, peer_list, i, overwrite) ==
    IF i > Len(peer_list)
    THEN [ok |-> TRUE, peers |-> registry, storedPeers |-> stored]
    ELSE IF overwrite \/ peer_list[i].peer_id \notin DOMAIN registry
    THEN IF peer_list[i].peer_id \in DOMAIN stored
         THEN [ok |-> FALSE, peers |-> InsertPeer(registry, peer_list[i]),
               storedPeers |-> stored]
         ELSE ImportPeers(InsertPeer(registry, peer_list[i]),
                          InsertPeer(stored, peer_list[i]),
                          peer_list, i + 1, overwrite)
    ELSE ImportPeers(registry, stored, peer_list, i + 1, overwrite)

\* the outcome of the peers loop with the experiences table beside it
WithExperiences(r, table) ==
    [ok |-> r.ok, peers |-> r.peers, storedPeers |-> r.storedPeers,
     experiences |-> table]

\* the peers loop runs if the experiences loop went through
ImportPeersAfter(imported, registry, stored, peer_list, overwrite) ==
    IF imported.ok
    THEN WithExperiences(ImportPeers(registry, stored, peer_list, 1, overwrite),
                         imported.table)
    ELSE [ok |-> FALSE, peers |-> registry, storedPeers |-> stored,
          experiences |-> imported.table]

import_trust_data(table, registry, stored, data, overwrite) ==
    ImportPeersAfter(ImportExperiences(table, data.experiences, 1, overwrite),
                     registry, stored, data.peers, overwrite)

\* what is in the node
NodeData == [experiences |-> experiences, peers |-> peers,
             storedPeers |-> storedPeers]
NoData == [experiences |-> <<>>, peers |-> PeerTable({}),
           storedPeers |-> PeerTable({})]

\* a call of the export / import interface: the document exported or
\* imported, the mode, the node's data before the call, the data of the node
\* the document was exported from (source), whether the call imports an
\* exported document into a node just started on an empty store
\* (round_trip), and the result
DataCall(op, data, overwrite, before, source, round_trip, ok) ==
    [op |-> op, data |-> data, overwrite |-> overwrite, before |-> before,
     source |-> source, round_trip |-> round_trip, ok |-> ok]

ImportInit ==
    /\ \E st \in ImportStores : NodeInit(st)
    /\ call = NoCall

ImportUnchanged ==
    UNCHANGED <<now, cache, connected, pending_requests, pendingRecs,
                subQueries, queryLog, nextRequestId, command_rx, issued,
                oneshot, inboundCount, responseChannel, pc>>

\* handle_command, the ExportTrustData arm
CmdExportTrustData ==
    /\ call.op \in {"none", "import"}
    /\ call' = DataCall("export", export_trust_data(experiences, storedPeers),
                        FALSE, NodeData, NodeData, FALSE, TRUE)
    /\ UNCHANGED <<experiences, storedPeers, cachedScores, peers>>
    /\ ImportUnchanged

\* a node is started on an empty store; the exported document is at hand
StartFreshNode ==
    /\ call.op = "export"
    /\ experiences' = <<>>
    /\ storedPeers' = PeerTable({})
    /\ cachedScores' = <<>>
    /\ peers' = PeerTable({})
    /\ call' = DataCall("new", call.data, FALSE, NoData, call.source, FALSE,
                        TRUE)
    /\ ImportUnchanged

\* the effect of import_trust_data with outcome r on the node
ImportEffects(data, overwrite, round_trip, source, r) ==
    /\ experiences' = r.experiences
    /\ storedPeers' = r.storedPeers
    /\ peers' = r.peers
    /\ call' = DataCall("import", data, overwrite, NodeData, source,
                        round_trip, r.ok)

\* handle_command, the ImportTrustData arm, with a document of the
\* front-end
CmdImportTrustData ==
    /\ call.op \in {"none", "import"}
    /\ \E data \in ImportDocuments, overwrite \in BOOLEAN :
          ImportEffects(data, overwrite, FALSE, NoData,
                        import_trust_data(experiences, peers, storedPeers,
                                          data, overwrite))
    /\ UNCHANGED cachedScores
    /\ ImportUnchanged

\* handle_command, the ImportTrustData arm, on the node just started, with
\* the exported document
CmdImportExported ==
    /\ call.op = "new"
    /\ \E overwrite \in BOOLEAN :
          ImportEffects(call.data, overwrite, TRUE, call.source,
                        import_trust_data(experiences, peers, storedPeers,
                                          call.data, overwrite))
    /\ UNCHANGED cachedScores
    /\ ImportUnchanged

ImportNext ==
    \/ CmdExportTrustData
    \/ StartFreshNode
    \/ CmdImportTrustData
    \/ CmdImportExported

ImportSpec == ImportInit /\ [][ImportNext]_vars

\* the entries of a sequence, as a set
SetOf(seq) == {seq[i] : i \in 1..Len(seq)}

\* C19: an exported document imported with overwrite into a node started on
\* an empty store gives that node the experiences and the peers of the
\* exporting node's store, and a registry that holds exactly the peers of
\* the document.
C19_ExportImportRoundTrip ==
    (call.op = "import" /\ call.round_trip /\ call.overwrite)
    => /\ call.ok
       /\ SetOf(experiences) = SetOf(call.source.experiences)
       /\ storedPeers = call.source.storedPeers
       /\ DOMAIN peers = {p.peer_id : p \in SetOf(call.data.peers)}
       /\ \A p \in SetOf(call.data.peers) : peers[p.peer_id] = p

\* an exported document with several experiences of one agent, stored in
\* another order than exported, and with peers has been imported with
\* overwrite into a node started on an empty store
C19_RoundTripDone ==
    /\ call.op = "import" /\ call.round_trip /\ call.overwrite
    /\ Len(call.source.experiences) = 3
    /\ call.source.experiences # call.data.experiences
    /\ Cardinality(DOMAIN call.source.storedPeers) = 2

RECURSIVE AddedIfAgentHasNone(_, _, _)
\* the table after adding, in turn, each experience whose agent has none
AddedIfAgentHasNone(table, exps, i) ==
    IF i > Len(exps) THEN table
    ELSE IF \E k \in 1..Len(table) : table[k].agent = exps[i].agent
    THEN AddedIfAgentHasNone(table, exps, i + 1)
    ELSE AddedIfAgentHasNone(Append(table, exps[i]), exps, i + 1)

RECURSIVE AddedIfHandleAbsent(_, _, _, _)
\* registry and peers table after adding, in turn, each peer whose handle
\* the registry does not hold
AddedIfHandleAbsent(registry, stored, peer_list, i) ==
    IF i > Len(peer_list) THEN <<registry, stored>>
    ELSE IF peer_list[i].peer_id \in DOMAIN registry
    THEN AddedIfHandleAbsent(registry, stored, peer_list, i + 1)
    ELSE AddedIfHandleAbsent(InsertPeer(registry, peer_list[i]),
                             InsertPeer(stored, peer_list[i]),
                             peer_list, i + 1)

\* the import without overwrite added what was absent and nothing else
ImportedIfAbsent ==
    /\ experiences = AddedIfAgentHasNone(call.before.experiences,
                                         call.data.experiences, 1)
    /\ <<peers, storedPeers>> =
          AddedIfHandleAbsent(call.before.peers, call.before.storedPeers,
                              call.data.peers, 1)

\* the import with overwrite added every experience and every peer
ImportedAll ==
    /\ \A e \in SetOf(call.data.experiences) : e \in SetOf(experiences)
    /\ \A p \in SetOf(call.data.peers) :
          /\ p.peer_id \in DOMAIN peers /\ peers[p.peer_id] = p
          /\ p.peer_id \in DOMAIN storedPeers /\ storedPeers[p.peer_id] = p

\* C20: an import without overwrite adds an experience only if the store
\* holds none for its agent and a peer only if the registry does not hold
\* its handle, and leaves what exists as it is; an import with overwrite
\* adds every experience and every peer of the document.
C20_ImportModes ==
    call.op = "import"
    => IF call.overwrite THEN ImportedAll ELSE ImportedIfAbsent

(***************************************************************************)
(* api.rs: the HTTP front-end, each request with the command it sends to   *)
(* the actor and the status it answers with.                               *)
(***************************************************************************)
\* the number of experiences recorded through the front-end
MaxApiExperiences == 2
\* params.max_depth.unwrap_or(3)
ApiDefaultMaxDepth == 3

\* the investments and the return value of the requests
ApiInvestments == {-100, 0, 1000}
ApiReturnValue == 1200

\* Uuid::new_v4(): an identifier the store does not hold
ApiExperienceIds == {"u1", "u2", "u3", "u4"}

\* (return_value / (1 + discount_rate)^years) / investment for a timeframe
\* of 0 days; a zero denominator stands for the infinite quotient
ApiPvRoi(return_value, investment) == RDiv(R(return_value), R(investment))

ApiCall(op, agent, investment, status, body, before) ==
    [op |-> op, agent |-> agent, investment |-> investment, status |-> status,
     body |-> body, before |-> before]

ApiInit ==
    /\ \E st \in StartStores : NodeInit(st)
    /\ call = NoCall

\* POST /experiences: add_experience builds the experience from the request
\* and sends AddExperience; the actor inserts it
ApiAddExperience ==
    /\ Len(experiences) < MaxApiExperiences
    /\ \E agent \in Agents, investment \in ApiInvestments :
          LET id == CHOOSE u \in ApiExperienceIds :
                       \A i \in 1..Len(experiences) : experiences[i].id # u
              experience == Experience(id, agent,
                                       ApiPvRoi(ApiReturnValue, investment),
                                       R(investment), now)
          IN  /\ experiences' = add_experience(experiences, experience)
              /\ call' = ApiCall("POST /experiences", agent, investment, "OK",
                                 experience, experiences)
    /\ EngineUnchanged

\* the status and body query_trust makes of the actor's reply
ApiScoreOf(agent, scores) ==
    IF \E i \in 1..Len(scores) : scores[i].agent = agent
    THEN [status |-> "OK",
          body |-> Some(scores[CHOOSE i \in 1..Len(scores) :
                             /\ scores[i].agent = agent
                             /\ \A j \in 1..(i - 1) : scores[j].agent # agent].score)]
    ELSE [status |-> "NOT_FOUND", body |-> NoValue]

\* what the handler does with the outcome r of process_trust_query
ApiQueryEffects(agent, r, answer) ==
    /\ r.kind = "reply"
    /\ cache' = r.memo
    /\ call' = ApiCall("GET /trust", agent, 0, answer.status,
                       [score |-> answer.body, reply |-> r.response.scores],
                       experiences)

ApiQueryOutcome(agent, r) ==
    ApiQueryEffects(agent, r, ApiScoreOf(agent, r.response.scores))

\* GET /trust/:agent_id: query_trust sends QueryTrust for the one agent at
\* the current time and reads the agent's score from the reply
ApiQueryTrust ==
    /\ connected = {}
    /\ \E agent \in Agents, max_depth \in {0, ApiDefaultMaxDepth} :
          ApiQueryOutcome(agent,
              process_trust_query(TrustQuery(<<agent>>, max_depth, Some(now),
                                             Some(R(0))),
                                  TRUE, TRUE))
    /\ UNCHANGED <<now, experiences, storedPeers, cachedScores, peers, connected,
                   pending_requests, pendingRecs, subQueries, queryLog,
                   nextRequestId, command_rx, issued, oneshot, inboundCount,
                   responseChannel, pc>>

\* the agents lists of the batch queries
ApiAgentLists ==
    {<<AgentA>>, <<AgentA, AgentA>>, <<AgentB, AgentA, AgentB>>}

\* the list without the repeated occurrences of its agents
ListedOnce(agents) ==
    SelectSeq([i \in 1..Len(agents) |->
                  IF \E j \in 1..(i - 1) : agents[j] = agents[i]
                  THEN None ELSE agents[i]],
              LAMBDA a : a # None)

\* what the handler does with the outcome r of process_trust_query; once is
\* the outcome for the list with every agent listed once
ApiBatchEffects(agents, r, once) ==
    /\ r.kind = "reply"
    /\ cache' = r.memo
    /\ call' = ApiCall("POST /trust/batch", agents, 0, "OK",
                       [reply |-> r.response.scores,
                        once |-> once.response.scores],
                       experiences)

\* POST /trust/batch: query_trust_batch sends the caller's query as it is
ApiQueryTrustBatch ==
    /\ connected = {}
    /\ \E agents \in ApiAgentLists :
          ApiBatchEffects(agents,
              process_trust_query(TrustQuery(agents, 0, Some(now), Some(R(0))),
                                  TRUE, TRUE),
              process_trust_query(TrustQuery(ListedOnce(agents), 0, Some(now),
                                             Some(R(0))),
                                  TRUE, TRUE))
    /\ UNCHANGED <<now, experiences, storedPeers, cachedScores, peers, connected,
                   pending_requests, pendingRecs, subQueries, queryLog,
                   nextRequestId, command_rx, issued, oneshot, inboundCount,
                   responseChannel, pc>>

ApiNext ==
    \/ ApiAddExperience
    \/ ApiQueryTrust
    \/ ApiQueryTrustBatch
    \/ EngineTick

ApiSpec == ApiInit /\ [][ApiNext]_vars

\* C21: every experience in the store has invested_volume > 0; a request to
\* record an experience with a non-positive investment is rejected and
\* leaves the store unchanged.
C21_StoredVolumesPositive ==
    /\ \A i \in 1..Len(experiences) : RPos(experiences[i].invested_volume)
    /\ (call.op = "POST /experiences" /\ call.investment <= 0)
       => (call.status # "OK" /\ experiences = call.before)

\* the node knows nothing of the agent asked for: no experience, no cached
\* opinion of a registered peer, no peer answer
UnknownAgentAsked ==
    /\ call.op = "GET /trust"
    /\ Len(get_experiences(call.before, call.agent)) = 0
    /\ Len(get_cached_scores(cachedScores, call.agent)) = 0

\* C22: a query for an agent the node knows nothing of is answered without
\* the agent by the actor, and with status OK and the neutral default
\* (1.0, 0.0, 0) by the front-end.
C22_UnknownAgentIsNeutral ==
    UnknownAgentAsked
    => /\ call.body.reply = <<>>
       /\ call.status = "OK"
       /\ call.body.score = Some(DefaultScore)

\* the replies sent so far, each a sequence of AgentScore
RepliesSent ==
    {oneshot[q].value.response.scores :
        q \in {p \in QueryIds : IsQuery(p) /\ Replied(p) /\ oneshot[p].value.ok}}

\* C23: every AgentScore of every reply has total_volume >= 0 and, when
\* total_volume > 0, data_points >= 1 (the stored experiences have positive
\* volume and the stored and received peer scores are of this form).
C23_ReplyScoresWellFormed ==
    \A scores \in RepliesSent :
        \A i \in 1..Len(scores) :
            /\ ~RNeg(scores[i].score.total_volume)
            /\ RPos(scores[i].score.total_volume)
               => scores[i].score.data_points >= 1

\* a reply at once and a reply after a fan-in have been sent, each with a
\* score of positive volume, the second merged from several contributions
C23_RepliesOfBothKindsSent ==
    /\ \E q \in QueryIds :
          /\ IsQuery(q) /\ Replied(q) /\ oneshot[q].value.ok
          /\ SubQueriesOf(q) = {}
          /\ \E i \in 1..Len(oneshot[q].value.response.scores) :
                RPos(oneshot[q].value.response.scores[i].score.total_volume)
    /\ \E q \in QueryIds :
          /\ IsQuery(q) /\ Replied(q) /\ oneshot[q].value.ok
          /\ Cardinality({r \in SubQueriesOf(q) :
                             r.status = "response" /\ Len(r.scores) > 0}) = 2
          /\ \E i \in 1..Len(oneshot[q].value.response.scores) :
                RPos(oneshot[q].value.response.scores[i].score.total_volume)

(***************************************************************************)
(* node.rs: the actor on a registry of one bare peer identifier or of two  *)
(* handles of one peer beside another peer, and with peers that answer     *)
(* about an agent they were not asked about.                               *)
(***************************************************************************)
WideStores ==
    {[experiences |-> <<>>, peers |-> PeerTable({HandleB1, HandleC}),
      cached |-> <<>>],
     [experiences |-> <<>>, peers |-> PeerTable({HandleBareC}),
      cached |-> <<>>],
     [experiences |-> <<>>,
      peers |-> PeerTable({HandleB1, HandleB2, HandleC}), cached |-> <<>>]}

WideScoreLists ==
    {<<AgentScore(AgentA, ScoreS3)>>, <<AgentScore(AgentB, ScoreOther)>>}

WideInit ==
    /\ \E st \in WideStores : NodeInit(st)
    /\ call = NoCall

HandleWideResponse == TrustResponseArrives(WideScoreLists)

WideNext ==
    \/ SendCommand
    \/ HandleAddExperience
    \/ HandleQueryTrust
    \/ HandleTrustQuery
    \/ HandleWideResponse
    \/ HandleRequestFailure
    \/ ConnectionEstablished
    \/ ConnectionClosed

WideSpec == WideInit /\ [][WideNext]_vars

\* the agents that had a contribution to the reply to q: in Phase 1, or in
\* an answer to one of its sub-queries
Contributed(q) ==
    DOMAIN queryLog[q].all_scores
    \cup UNION {AgentsOf(req.scores) :
                   req \in {r \in SubQueriesOf(q) : r.status = "response"}}

\* C24: a reply holds an AgentScore exactly for the agents of the query that
\* had a contribution, each once, and none for an agent that is not among
\* the query's agents.
C24_ReplyAgentsAreContributors ==
    \A q \in QueryIds :
        (IsQuery(q) /\ Replied(q) /\ oneshot[q].value.ok)
        => /\ AgentsOf(oneshot[q].value.response.scores) =
                 Contributed(q) \cap SetOf(queryLog[q].query.agents)
           /\ Cardinality(AgentsOf(oneshot[q].value.response.scores)) =
                 Len(oneshot[q].value.response.scores)

\* the transport peer a handle stands for: the identifier embedded in a
\* multi-component address, or the bare identifier itself
HandlePeer(handle) ==
    IF MultiaddrPeerId(handle) = None THEN handle ELSE MultiaddrPeerId(handle)

\* the peers of the registry that are connected
RegisteredConnected == {HandlePeer(h) : h \in DOMAIN peers} \cap connected

\* the step takes up the query of channel q, without a storage error
TakesUp(q) ==
    /\ ~queryLog[q].handled
    /\ queryLog'[q].handled
    /\ queryLog'[q].kind \in {"QueryTrust", "peer"}
    /\ ~queryLog'[q].storage_error

\* C25: a query with max_depth > 0 is fanned out with one sub-query to every
\* connected peer of the registry, whether its handle is a multi-component
\* address or a bare peer identifier, and to no other peer.
C25_FanOutReachesEveryConnectedPeer ==
    [][\A q \in QueryIds :
          (TakesUp(q) /\ queryLog'[q].query.max_depth > 0)
          => /\ \A p \in RegisteredConnected :
                   Cardinality({r \in subQueries' \ subQueries : r.peer = p}) = 1
             /\ \A r \in subQueries' \ subQueries : r.peer \in RegisteredConnected
      ]_vars

RECURSIVE AnswersOf(_, _, _)
\* the answers to the sub-queries of q among subs, in the order of the
\* request identifiers from i on
AnswersOf(q, subs, i) ==
    IF i >= nextRequestId THEN <<>>
    ELSE (IF \E r \in subs : r.id = i /\ r.parent = q /\ r.status = "response"
          THEN <<[response |->
                     TrustResponse((CHOOSE r \in subs : r.id = i).scores, now),
                  peer_id |-> PeerIdToString((CHOOSE r \in subs : r.id = i).peer)]>>
          ELSE <<>>)
         \o AnswersOf(q, subs, i + 1)

\* the Phase-1 table of the record merged with the answers
MergedFromPhaseOne(local_scores, answers) ==
    FinalScores(AddPeerScores(local_scores,
                              merge_responses(answers, now).scores, 1))

\* C26: the merge that answers a fanned-out query starts from the Phase-1
\* table of the pending record, whether a response or a failure drains the
\* waiting set: the reply is the merge of that table with the answers
\* received, in whatever order answers and failures arrived.
C26_FanInStartsFromPhaseOne ==
    [][\A q \in DOMAIN pendingRecs :
          (/\ oneshot[q].state = "open"
           /\ oneshot'[q].state = "sent"
           /\ oneshot'[q].value.ok)
          => oneshot'[q].value.response.scores =
                MergedFromPhaseOne(pendingRecs[q].local_scores,
                                   AnswersOf(q, subQueries', 1))
      ]_vars

\* the sub-query of the query, with point_in_time and forget_rate resolved
\* at the time now
PinnedSubQuery(query) ==
    TrustQuery(query.agents, query.max_depth - 1,
               Some(IF query.point_in_time = NoValue THEN now
                    ELSE query.point_in_time[1]),
               Some(IF query.forget_rate = NoValue THEN R(0)
                    ELSE query.forget_rate[1]))

\* C27: every sub-query sent for a query Q carries Q.max_depth - 1, Q's
\* agents, and the point_in_time and forget_rate resolved at the fan-out:
\* Q's values when given, otherwise the current time and 0.
C27_SubQueriesArePinned ==
    [][\A r \in subQueries' \ subQueries :
          r.status = "sent"
          => /\ TakesUp(r.parent)
             /\ r.query = PinnedSubQuery(queryLog'[r.parent].query)
      ]_vars

\* sub-queries have been sent for a query that left point_in_time and
\* forget_rate open, after the clock had moved, and for a query that gave
\* them
C27_SubQueriesOfBothKindsSent ==
    /\ \E r \in subQueries :
          /\ queryLog[r.parent].query.point_in_time = NoValue
          /\ queryLog[r.parent].query.forget_rate = NoValue
          /\ r.query.point_in_time = Some(MaxTime)
    /\ \E r \in subQueries :
          /\ queryLog[r.parent].query.point_in_time # NoValue
          /\ r.query.max_depth = queryLog[r.parent].query.max_depth - 1

\* the step drains the waiting set of the record of q
Drains(q) ==
    /\ q \in DOMAIN pendingRecs
    /\ q \notin DOMAIN pendingRecs'
    /\ pc' # "terminated"

\* C28: a pending record is indexed under every request identifier of its
\* fan-out; every record in the table has a non-empty waiting set and a
\* reply channel not yet used; the step that empties the waiting set sends
\* the one reply and removes every index entry of the record, and no later
\* response or failure replies again.
C28_PendingTableInvariant ==
    /\ [](/\ \A id \in DOMAIN pending_requests :
               /\ pending_requests[id] \in DOMAIN pendingRecs
               /\ pendingRecs[pending_requests[id]].waiting_for # {}
               /\ oneshot[pending_requests[id]].state # "sent"
          /\ \A q \in DOMAIN pendingRecs :
               \A r \in SubQueriesOf(q) :
                  /\ r.id \in DOMAIN pending_requests
                  /\ pending_requests[r.id] = q)
    /\ [][\A q \in QueryIds :
            /\ Drains(q)
               => /\ oneshot[q].state # "sent"
                  /\ oneshot'[q].state = "sent"
                  /\ \A id \in DOMAIN pending_requests' :
                        pending_requests'[id] # q
            /\ oneshot[q].state = "sent" => oneshot'[q] = oneshot[q]
       ]_vars

\* a query fanned out with two requests to one peer has been answered on
\* the first outcome, and the second outcome has arrived since
C28_LateOutcomeArrived ==
    \E q \in QueryIds :
        /\ Replied(q)
        /\ \E r1, r2 \in SubQueriesOf(q) :
              /\ r1.id # r2.id
              /\ r1.peer = r2.peer
              /\ r1.status # "sent"
              /\ r2.status # "sent"

\* the step takes in an answer of a peer to the sub-query req
AnswerTakenIn(req) ==
    /\ req \in subQueries' \ subQueries
    /\ req.status = "response"

\* the record the answer req belongs to, as it is before the step
RecordOf(req) == pendingRecs[pending_requests[req.id]]

\* C29: every arrived peer answer has each of its scores upserted into the
\* cached-opinion table under the answering peer unless the write fails,
\* with or without a pending record and with or without the peer in its
\* waiting set; an answer without a pending record changes nothing else;
\* and the pending table and the reply are the same whether the write
\* succeeds or fails.
C29_AnswersAreCached ==
    [][\A req \in subQueries' \ subQueries :
          AnswerTakenIn(req)
          => /\ CachedAnswer(req) \/ cachedScores' = cachedScores
             /\ req.id \notin DOMAIN pending_requests
                => UNCHANGED <<pending_requests, pendingRecs, oneshot,
                               command_rx, pc>>
             /\ req.id \in DOMAIN pending_requests
                => /\ pc' = "loop"
                   /\ IF RecordOf(req).waiting_for \ {req.peer} = {}
                      THEN /\ Drains(pending_requests[req.id])
                           /\ oneshot'[pending_requests[req.id]].state = "sent"
                      ELSE /\ pending_requests' = pending_requests
                           /\ oneshot' = oneshot
                           /\ pendingRecs'[pending_requests[req.id]].waiting_for
                              = RecordOf(req).waiting_for \ {req.peer}
      ]_vars

\* the scores of the answer req are rows of the table under its peer
RowsCached(req) ==
    /\ req.status = "response"
    /\ req.scores # <<>>
    /\ \A a \in AgentsOf(req.scores) :
          Len(RowsOf(cachedScores, a, PeerIdToString(req.peer))) = 1

\* the reply to q was sent before the cached answer of one of its requests
\* arrived: the reply has no score for the agent of that answer
LateAnswerCached(q) ==
    /\ IsQuery(q) /\ Replied(q) /\ oneshot[q].value.ok
    /\ \E r \in SubQueriesOf(q) :
          /\ RowsCached(r)
          /\ AgentsOf(r.scores)
             \cap AgentsOf(oneshot[q].value.response.scores) = {}

\* a peer answered two requests of q, both before the reply, so that the
\* second answer found the peer gone from the waiting set; both are cached
UnawaitedAnswerCached(q) ==
    /\ IsQuery(q) /\ Replied(q) /\ oneshot[q].value.ok
    /\ \E r1, r2 \in SubQueriesOf(q) :
          /\ r1.id # r2.id /\ r1.peer = r2.peer
          /\ RowsCached(r1) /\ RowsCached(r2)
          /\ AgentsOf(r1.scores) # AgentsOf(r2.scores)
          /\ AgentsOf(r1.scores) \cup AgentsOf(r2.scores)
             \subseteq AgentsOf(oneshot[q].value.response.scores)

\* one query was answered before the last answer to it arrived, another
\* took in two answers of one peer, and the answers are cached
C29_CachedWithoutPendingRecord ==
    \E q1, q2 \in QueryIds :
        LateAnswerCached(q1) /\ UnawaitedAnswerCached(q2)

\* the peer is in the registry, has answered a sub-query with a score for
\* the agent, and the table holds the cached opinion
AnsweredAndCached(agent, peer) ==
    /\ \E h \in DOMAIN peers : HandlePeer(h) = peer
    /\ \E r \in subQueries :
          /\ r.status = "response"
          /\ r.peer = peer
          /\ agent \in AgentsOf(r.scores)
    /\ Len(RowsOf(cachedScores, agent, PeerIdToString(peer))) = 1

\* the table holds the cached opinion of the peer on the agent as a
\* contribution weighted by a registry quality of the peer times the age
\* factor
CachedOpinionIn(table, agent, peer) ==
    /\ agent \in DOMAIN table
    /\ \E h \in DOMAIN peers, i \in 1..Len(table[agent]) :
          /\ HandlePeer(h) = peer
          /\ table[agent][i] =
                <<PeerIdToString(peer),
                  RowsOf(cachedScores, agent, PeerIdToString(peer))[1].score,
                  RMul(peers[h].recommender_quality,
                       AgeFactor(RowsOf(cachedScores, agent,
                                        PeerIdToString(peer))[1].cached_at,
                                 now))>>

\* C30: once a peer of the registry has answered a sub-query with a score
\* for an agent and the opinion is cached, a later query with max_depth = 0
\* for the agent, whose reads of the store succeed, has the cached opinion
\* among its contributions, weighted by the peer's recommender quality
\* times the age factor.
C30_CachedOpinionContributes ==
    [][\A q \in QueryIds :
          (/\ TakesUp(q)
           /\ queryLog'[q].query.max_depth = 0
           /\ queryLog'[q].all_scores =
                 process_trust_query(queryLog'[q].query, TRUE, TRUE).all_scores)
          => \A p \in PeerIds :
                \A i \in 1..Len(queryLog'[q].query.agents) :
                   AnsweredAndCached(queryLog'[q].query.agents[i], p)
                   => CachedOpinionIn(queryLog'[q].all_scores,
                                      queryLog'[q].query.agents[i], p)
      ]_vars

(***************************************************************************)
(* node.rs handle_command: the peer commands of the front-end, on a node   *)
(* whose callers send up to MaxCommands commands and may give up waiting.  *)
(***************************************************************************)
MaxCommands == 3
CommandIds == 1..MaxCommands

QualityNew == Rat(1, 4)

CommandStores ==
    {[experiences |-> <<>>, peers |-> PeerTable({HandleB1, HandleBareB}),
      cached |-> <<CachedTrustScore(AgentA, ScoreOther, "B", 0)>>],
     [experiences |-> <<ExperienceA1>>, peers |-> PeerTable({HandleB1}),
      cached |-> <<>>]}

CommandScoreLists == {<<AgentScore(AgentA, ScoreS3)>>}

AddPeerCommand(peer) == [type |-> "AddPeer", peer |-> peer]
RemovePeerCommand(peer_id) == [type |-> "RemovePeer", peer_id |-> peer_id]
UpdatePeerQualityCommand(peer_id, quality) ==
    [type |-> "UpdatePeerQuality", peer_id |-> peer_id, quality |-> quality]
ClearPeersCommand == [type |-> "ClearPeers"]

\* the commands the callers send
NodeCommands ==
    {QueryTrustCommand(q) : q \in CommandQueries}
    \cup {AddExperienceCommand(ExperienceA2)}
    \cup {AddPeerCommand(Peer(h, QualityNew)) : h \in {HandleC, HandleB1}}
    \cup {RemovePeerCommand(h) : h \in {HandleB1, HandleBareB}}
    \cup {UpdatePeerQualityCommand(h, QualityNew) : h \in {HandleB1, HandleC}}
    \cup {ClearPeersCommand}

\* the node after TrustNode::new on one of the stores
CommandInit ==
    /\ \E st \in CommandStores :
          /\ experiences = st.experiences
          /\ storedPeers = st.peers
          /\ cachedScores = st.cached
    /\ now = 0
    /\ cache = [k \in {} |-> None]
    /\ peers = storedPeers
    /\ connected = {}
    /\ pending_requests = [id \in {} |-> 0]
    /\ pendingRecs = [q \in {} |-> None]
    /\ subQueries = {}
    /\ queryLog = [q \in CommandIds |-> NoLog]
    /\ nextRequestId = 1
    /\ command_rx = <<>>
    /\ issued = 0
    /\ oneshot = [q \in CommandIds |-> Idle]
    /\ inboundCount = 0
    /\ responseChannel = [q \in CommandIds |-> Idle]
    /\ pc = "loop"
    /\ call = NoCall

\* api.rs: a handler sends its command with a fresh reply channel
SendNodeCommand ==
    /\ pc # "terminated"
    /\ issued < MaxCommands
    /\ Len(command_rx) < CommandChannelCapacity
    /\ \E cmd \in NodeCommands :
          /\ command_rx' = Append(command_rx, [id |-> issued + 1, cmd |-> cmd])
          /\ queryLog' = [queryLog EXCEPT ![issued + 1] =
                LogEntry(cmd.type,
                         IF cmd.type = "QueryTrust" THEN cmd.query ELSE <<>>,
                         FALSE, FALSE, <<>>, <<>>)]
    /\ issued' = issued + 1
    /\ oneshot' = [oneshot EXCEPT ![issued + 1] = Open]
    /\ UNCHANGED <<now, experiences, storedPeers, cachedScores, cache, peers,
                   connected, pending_requests, pendingRecs, subQueries,
                   nextRequestId, inboundCount, responseChannel, pc>>
    /\ UNCHANGED call

\* the request of a caller that queries is cancelled: the receiver of its
\* reply is dropped
CallerDropsReceiver ==
    /\ \E q \in CommandIds :
          /\ queryLog[q].kind = "QueryTrust"
          /\ oneshot[q].state = "open"
          /\ oneshot' = [oneshot EXCEPT ![q] = Closed]
    /\ UNCHANGED <<now, experiences, storedPeers, cachedScores, cache, peers,
                   connected, pending_requests, pendingRecs, subQueries,
                   queryLog, nextRequestId, command_rx, issued, inboundCount,
                   responseChannel, pc>>
    /\ UNCHANGED call

\* let _ = response.send(result) of a peer command, and what it leaves alone
PeerCommandDone(c, ok) ==
    /\ oneshot' = SendReply(oneshot, c.id,
                            IF ok THEN [ok |-> TRUE] ELSE ErrResult("storage"))
    /\ queryLog' = [queryLog EXCEPT ![c.id].handled = TRUE,
                                    ![c.id].storage_error = ~ok]
    /\ command_rx' = Tail(command_rx)
    /\ UNCHANGED <<now, experiences, cachedScores, cache, connected,
                   pending_requests, pendingRecs, subQueries, nextRequestId,
                   issued, inboundCount, responseChannel, pc>>
    /\ UNCHANGED call

\* the registry or the peers table without the handle
WithoutPeer(table, handle) == [h \in DOMAIN table \ {handle} |-> table[h]]

\* peer.recommender_quality = quality, UPDATE peers SET recommender_quality
WithQuality(table, handle, quality) ==
    [h \in DOMAIN table |->
        IF h = handle THEN Peer(h, quality) ELSE table[h]]

\* NodeCommand::AddPeer: the registry entry is written, then the INSERT
HandleAddPeer ==
    /\ pc = "loop"
    /\ Len(command_rx) > 0
    /\ Head(command_rx).cmd.type = "AddPeer"
    /\ peers' = InsertPeer(peers, Head(command_rx).cmd.peer)
    /\ \E storage_ok \in BOOLEAN :
          IF storage_ok /\ Head(command_rx).cmd.peer.peer_id \notin DOMAIN storedPeers
          THEN /\ storedPeers' = InsertPeer(storedPeers, Head(command_rx).cmd.peer)
               /\ PeerCommandDone(Head(command_rx), TRUE)
          ELSE /\ storedPeers' = storedPeers
               /\ PeerCommandDone(Head(command_rx), FALSE)

\* NodeCommand::UpdatePeerQuality
HandleUpdatePeerQuality ==
    /\ pc = "loop"
    /\ Len(command_rx) > 0
    /\ Head(command_rx).cmd.type = "UpdatePeerQuality"
    /\ peers' = WithQuality(peers, Head(command_rx).cmd.peer_id,
                            Head(command_rx).cmd.quality)
    /\ \E storage_ok \in BOOLEAN :
          /\ storedPeers' =
                IF storage_ok
                THEN WithQuality(storedPeers, Head(command_rx).cmd.peer_id,
                                 Head(command_rx).cmd.quality)
                ELSE storedPeers
          /\ PeerCommandDone(Head(command_rx), storage_ok)

\* NodeCommand::RemovePeer
HandleRemovePeer ==
    /\ pc = "loop"
    /\ Len(command_rx) > 0
    /\ Head(command_rx).cmd.type = "RemovePeer"
    /\ peers' = WithoutPeer(peers, Head(command_rx).cmd.peer_id)
    /\ \E storage_ok \in BOOLEAN :
          /\ storedPeers' =
                IF storage_ok
                THEN WithoutPeer(storedPeers, Head(command_rx).cmd.peer_id)
                ELSE storedPeers
          /\ PeerCommandDone(Head(command_rx), storage_ok)

\* NodeCommand::ClearPeers
HandleClearPeers ==
    /\ pc = "loop"
    /\ Len(command_rx) > 0
    /\ Head(command_rx).cmd.type = "ClearPeers"
    /\ peers' = [h \in {} |-> None]
    /\ \E storage_ok \in BOOLEAN :
          /\ storedPeers' = IF storage_ok THEN [h \in {} |-> None]
                            ELSE storedPeers
          /\ PeerCommandDone(Head(command_rx), storage_ok)

HandleCommandResponse == TrustResponseArrives(CommandScoreLists)

CommandNext ==
    \/ SendNodeCommand
    \/ CallerDropsReceiver
    \/ HandleAddExperience
    \/ HandleQueryTrust
    \/ HandleAddPeer
    \/ HandleUpdatePeerQuality
    \/ HandleRemovePeer
    \/ HandleClearPeers
    \/ HandleCommandResponse
    \/ HandleRequestFailure
    \/ ConnectionEstablished

CommandSpec == CommandInit /\ [][CommandNext]_vars

\* the sources of the contributions of a table
SourcesOf(table) ==
    UNION {{table[a][i][1] : i \in 1..Len(table[a])} : a \in DOMAIN table}

\* C31: the Phase-1 table of a query has no cached opinion of a source that
\* is not a handle of the registry when the query is handled, so that after
\* RemovePeer or ClearPeers no later query is influenced by the opinions
\* cached from the removed peer; the commands on the registry leave the
\* cached rows in the store.
C31_UnknownPeersIgnored ==
    [][/\ \A q \in CommandIds :
             TakesUp(q)
             => SourcesOf(queryLog'[q].all_scores)
                   \subseteq {"self"} \cup {peers[h].peer_id : h \in DOMAIN peers}
       /\ peers' # peers => cachedScores' = cachedScores
      ]_vars

\* the cached opinion of the peer of handle B contributed to a first query;
\* the peer was then removed or the registry cleared; a later query was
\* answered with no score although the row is still in the store
C31_RemovedPeerIgnored ==
    \E q1, q2, q3 \in CommandIds :
        /\ q1 < q2 /\ q2 < q3
        /\ IsQuery(q1) /\ queryLog[q1].handled
        /\ HandleBareB \in SourcesOf(queryLog[q1].all_scores)
        /\ queryLog[q2].kind \in {"RemovePeer", "ClearPeers"}
        /\ queryLog[q2].handled
        /\ IsQuery(q3) /\ Replied(q3) /\ oneshot[q3].value.ok
        /\ oneshot[q3].value.response.scores = <<>>
        /\ Len(RowsOf(cachedScores, AgentA, HandleBareB)) = 1

\* C32: the in-memory registry equals the peers table of the store (same
\* handles, same recommender_quality) after every sequence of peer
\* commands, those whose store operation fails included.
C32_RegistryEqualsStore == peers = storedPeers

PeerCommandKinds == {"AddPeer", "RemovePeer", "UpdatePeerQuality", "ClearPeers"}

\* the step handles a command on the registry
HandlesPeerCommand ==
    \E q \in CommandIds :
        /\ queryLog[q].kind \in PeerCommandKinds
        /\ ~queryLog[q].handled
        /\ queryLog'[q].handled

\* C33: a command on the registry leaves the pending records (waiting set
\* and stored contribution table), their index and the sub-queries as they
\* are; sub-queries are sent only when their query is taken up, so a peer
\* added during the wait is not consulted; and the answer to an outstanding
\* sub-query is awaited and merged whether or not its peer is still in the
\* registry (a record goes only with its last outcome, or with the actor).
C33_RegistryCommandsLeavePendingAlone ==
    [][/\ HandlesPeerCommand
          => UNCHANGED <<pending_requests, pendingRecs, subQueries,
                         nextRequestId>>
       /\ \A r \in subQueries' \ subQueries :
             r.status = "sent" => TakesUp(r.parent)
       /\ \A q \in DOMAIN pendingRecs :
             /\ q \in DOMAIN pendingRecs'
                => pendingRecs'[q].local_scores = pendingRecs[q].local_scores
             /\ \A r \in subQueries' \ subQueries :
                   (r.parent = q /\ r.status # "sent")
                   => IF pendingRecs[q].waiting_for \ {r.peer} = {}
                      THEN q \notin DOMAIN pendingRecs'
                      ELSE /\ q \in DOMAIN pendingRecs'
                           /\ pendingRecs'[q].waiting_for =
                                 pendingRecs[q].waiting_for \ {r.peer}
             /\ (/\ pc' # "terminated"
                 /\ \A r \in subQueries' \ subQueries : r.parent # q)
                => /\ q \in DOMAIN pendingRecs'
                   /\ pendingRecs'[q] = pendingRecs[q]
             /\ (/\ oneshot[q].state = "open"
                 /\ q \notin DOMAIN pendingRecs'
                 /\ \E r \in subQueries' \ subQueries :
                       r.parent = q /\ r.status = "response")
                => /\ oneshot'[q].state = "sent"
                   /\ oneshot'[q].value.ok
                   /\ oneshot'[q].value.response.scores =
                         MergedFromPhaseOne(pendingRecs[q].local_scores,
                                            AnswersOf(q, subQueries', 1))
      ]_vars

\* a query waits for the answer of the peer of handle B1; since its fan-out
\* the handle was removed from the registry and the connected peer C was
\* added, and C has no sub-query
C33_RemovedPeerStillMerged ==
    \E q1, q2, q3 \in CommandIds :
        /\ q1 < q2 /\ q2 < q3
        /\ IsQuery(q1) /\ queryLog[q2].kind = "RemovePeer"
        /\ queryLog[q3].kind = "AddPeer" /\ queryLog[q3].handled
        /\ HandleB1 \notin DOMAIN peers
        /\ HandleC \in DOMAIN peers /\ "C" \in connected
        /\ q1 \in DOMAIN pendingRecs
        /\ \E r \in SubQueriesOf(q1) : r.peer = "B" /\ r.status = "sent"
        /\ \A r \in SubQueriesOf(q1) : r.peer # "C"

\* the step brings the last outcome the record of q waits for
LastOutcomeArrives(q) ==
    \E r \in subQueries' \ subQueries :
        /\ r.parent = q
        /\ r.status # "sent"
        /\ pendingRecs[q].waiting_for \ {r.peer} = {}

\* C34: when the originator of a query has dropped its reply channel before
\* the waiting set drains, the draining step discards the reply, the actor
\* stays in its loop, and the record and all its index entries are removed.
C34_DroppedOriginatorCleanedUp ==
    [][\A q \in DOMAIN pendingRecs :
          (oneshot[q].state = "closed" /\ LastOutcomeArrives(q))
          => /\ q \notin DOMAIN pendingRecs'
             /\ \A id \in DOMAIN pending_requests' : pending_requests'[id] # q
             /\ oneshot'[q] = oneshot[q]
             /\ pc' = "loop"
      ]_vars

\* the originator dropped its channel while its query waited, the outcomes
\* of all its sub-queries have arrived, and the pending table is empty
C34_DrainedAfterDrop ==
    \E q \in CommandIds :
        /\ IsQuery(q)
        /\ oneshot[q].state = "closed"
        /\ SubQueriesOf(q) # {}
        /\ \A r \in SubQueriesOf(q) : r.status # "sent"
        /\ q \notin DOMAIN pendingRecs
        /\ DOMAIN pending_requests = {}
        /\ pc = "loop"

\* C35: when the response to an inbound query cannot be sent because the
\* channel of the requesting peer has closed, the actor keeps running its
\* event loop.
C35_ClosedPeerChannelKeepsLoop ==
    [][\A q \in QueryIds :
          (responseChannel[q].state # "closed"
           /\ responseChannel'[q].state = "closed")
          => pc' = "loop"
      ]_vars

(***************************************************************************)
(* node.rs connect_to_known_peers: the reconnect tick on a registry of up  *)
(* to MaxKnownPeers peers.                                                 *)
(***************************************************************************)
MaxKnownPeers == 6
MAX_CONNECTION_ATTEMPTS == 5

\* a peer of the registry as the tick sees it: whether its handle parses as
\* a peer identifier or as an address with a peer identifier, and whether
\* the swarm is connected to that peer
KnownPeer(form, is_connected) == [form |-> form, connected |-> is_connected]
KnownPeers ==
    {KnownPeer("peer_id", FALSE), KnownPeer("multiaddr", FALSE),
     KnownPeer("multiaddr", TRUE)}

DialCall(known, done, dial_fails, dialed, attempts) ==
    [op |-> "connect_to_known_peers", known |-> known, done |-> done,
     dial_fails |-> dial_fails, dialed |-> dialed, attempts |-> attempts]

RECURSIVE connect_to_known_peers(_, _, _, _, _)
\* the loop over self.peers.values() from entry i on: dialed lists the
\* entries self.swarm.dial was called for, dial_fails the entries for which
\* it returns an error at once
connect_to_known_peers(known, i, connection_attempts, dial_fails, dialed) ==
    IF i > Len(known) \/ connection_attempts >= MAX_CONNECTION_ATTEMPTS
    THEN [dialed |-> dialed, attempts |-> connection_attempts]
    ELSE IF known[i].connected
    THEN connect_to_known_peers(known, i + 1, connection_attempts,
                                dial_fails, dialed)
    ELSE connect_to_known_peers(known, i + 1,
            IF i \in dial_fails THEN connection_attempts
            ELSE connection_attempts + 1,
            dial_fails, Append(dialed, i))

DialInit ==
    /\ NodeInit(EmptyStore)
    /\ \E known \in SeqsUpTo(KnownPeers, MaxKnownPeers) :
          call = DialCall(known, FALSE, {}, <<>>, 0)

\* peer_connection_interval.tick(): self.connect_to_known_peers()
ReconnectTick ==
    /\ call.op = "connect_to_known_peers"
    /\ ~call.done
    /\ \E dial_fails \in SUBSET (1..Len(call.known)) :
          call' = DialCall(call.known, TRUE, dial_fails,
                      connect_to_known_peers(call.known, 1, 0, dial_fails,
                                             <<>>).dialed,
                      connect_to_known_peers(call.known, 1, 0, dial_fails,
                                             <<>>).attempts)
    /\ UNCHANGED nodeVars

DialNext == ReconnectTick

DialSpec == DialInit /\ [][DialNext]_vars

\* C36: a reconnect tick dials only known peers that are not connected, and
\* makes at most MAX_CONNECTION_ATTEMPTS dial attempts, those that fail at
\* once counted as well as those that are initiated.
C36_DialAttemptsCapped ==
    (call.op = "connect_to_known_peers" /\ call.done)
    => /\ \A k \in 1..Len(call.dialed) : ~call.known[call.dialed[k]].connected
       /\ Len(call.dialed) <= MAX_CONNECTION_ATTEMPTS

\* the local score of the agent over the experiences now stored
StoredScore(agent, point_in_time, forget_rate) ==
    ScoreOfExperiences(get_experiences(experiences, agent),
        calculate_weighted_average(get_experiences(experiences, agent),
                                   point_in_time, forget_rate))

\* the "self" contributions of the table for the agent
SelfContributions(table, agent) ==
    IF agent \in DOMAIN table
    THEN SelectSeq(table[agent], LAMBDA c : c[1] = "self")
    ELSE <<>>

\* the Phase-1 table of the query shows the store and the registry as the
\* commands handled before it left them: the local score is the one of the
\* experiences stored, and a cached opinion is weighted by the quality the
\* registry has for its source
ObservesEarlierCommands(query, table) ==
    \A i \in 1..Len(query.agents) :
        /\ SelfContributions(table, query.agents[i]) =
              IF RPos(StoredScore(query.agents[i], now, R(0)).total_volume)
              THEN <<<<"self", StoredScore(query.agents[i], now, R(0)), R(1)>>>>
              ELSE <<>>
        /\ query.agents[i] \in DOMAIN table
           => \A k \in 1..Len(table[query.agents[i]]) :
                 table[query.agents[i]][k][1] # "self"
                 => /\ table[query.agents[i]][k][1] \in DOMAIN peers
                    /\ table[query.agents[i]][k][3] =
                          RMul(peers[table[query.agents[i]][k][1]].recommender_quality,
                               AgeFactor(RowsOf(cachedScores, query.agents[i],
                                                table[query.agents[i]][k][1])[1].cached_at,
                                         now))

\* C37: the commands of a caller are handled in the order sent, one at a
\* time, and a query sent after an AddExperience, AddPeer or
\* UpdatePeerQuality observes the effect of that command.
C37_CommandsObservedInOrder ==
    /\ [](\A q1, q2 \in CommandIds :
            (q1 < q2 /\ queryLog[q2].handled) => queryLog[q1].handled)
    /\ [][\A q \in CommandIds :
            (TakesUp(q) /\ queryLog[q].kind = "QueryTrust")
            => ObservesEarlierCommands(queryLog'[q].query,
                                       queryLog'[q].all_scores)
       ]_vars

\* C38: a query that lists an agent more than once is answered with one
\* AgentScore for the agent, the one of a query that lists the agent once.
C38_RepeatedAgentSameScore ==
    call.op = "POST /trust/batch"
    => /\ \A i, j \in 1..Len(call.body.reply) :
             call.body.reply[i].agent = call.body.reply[j].agent => i = j
       /\ call.body.reply = call.body.once

\* C39: an ImportTrustData command that replies with an error leaves the
\* stored experiences, the stored peers and the in-memory peer registry as
\* they were before the command.
C39_FailedImportChangesNothing ==
    (call.op = "import" /\ ~call.ok)
    => /\ experiences = call.before.experiences
       /\ storedPeers = call.before.storedPeers
       /\ peers = call.before.peers

====
